---- MODULE Spec2Model ----
(***************************************************************************)
(* A model of the tournament simulator of clean_tournament_sim.py:         *)
(*   - NAStandingsManager: the championship-points ledger (na_standings),  *)
(*     its 5-finish rule and the placement -> points table;                *)
(*   - TournamentSimulator: Swiss pairing, round simulation, the Day-1     *)
(*     cutoff and the final placements of run_tournament.                  *)
(*                                                                         *)
(* Conventions.  Python lists are sequences; Python's 0-based positions    *)
(* are the 1-based positions of the sequences here.  A Python str is a     *)
(* sequence of one-character strings, so that lower(), strip(), split(),   *)
(* join() and int() are computed character by character.  Floats of the    *)
(* skill model are fixed-point integers in units of 1/Scale.               *)
(***************************************************************************)
EXTENDS Integers, Sequences, FiniteSets, TLC

VARIABLES
    \* ---- NAStandingsManager ----
    na_standings,      \* the ledger DataFrame: a sequence of rows
    na_lookup,         \* dict built by load_na_data: lower/stripped name -> row
    points_table,      \* placement -> points (a function on its key set)
    track_na_standings,
    call,              \* the ledger call made last: its name and arguments
    ret,               \* what that call returned
    \* ---- TournamentSimulator.run_tournament ----
    pc,                \* position inside run_tournament
    seed,              \* the seed of the run
    rng,               \* state of Python's `random` generator
    df,                \* the participants DataFrame: a sequence of rows
    round_num,         \* the round being simulated
    \* locals of generate_swiss_pairings
    pairings, paired, point_totals, bracket_list, i,
    \* position of simulate_round's loop over the pairings
    k,
    tournament_result,
    \* ---- TournamentSimulator.track_140th_place_experiment ----
    experiment         \* the call in progress: its position, arguments and locals

vars == << na_standings, na_lookup, points_table, track_na_standings, call, ret,
           pc, seed, rng, df, round_num,
           pairings, paired, point_totals, bracket_list, i, k,
           tournament_result, experiment >>

ledgerVars == << na_standings, na_lookup, points_table, track_na_standings >>
runVars    == << pc, seed, rng, df, round_num,
                 pairings, paired, point_totals, bracket_list, i, k,
                 tournament_result >>

-----------------------------------------------------------------------------
(* Bounds of the model *)

\* rows of the ledger CSV
NumRows == 2
\* players held by the player database
NumPlayers == 4
\* seeds a run may draw from the clock
NumSeeds == 3
\* placements looked up in the points table go up to the table's maximum + this
PlacementSlack == 6
\* largest population of the runs that are repeated
RepeatPlayers == 2
\* largest num_simulations of an experiment
MaxSimulations == 2

-----------------------------------------------------------------------------
(* Python values *)

\* None, and a value that is not None
None == [none |-> TRUE]
Some(v) == [none |-> FALSE, v |-> v]

\* the truth value Python gives an int-or-None in `if x:`
Truthy(x) == ~x.none /\ x.v # 0

Range(s) == { s[x] : x \in DOMAIN s }

RECURSIVE SumSeq(_)
\* sum(list)
SumSeq(s) == IF s = << >> THEN 0 ELSE Head(s) + SumSeq(Tail(s))

\* min(list) of a non-empty list
MinSeq(s) == CHOOSE m \in Range(s) : \A x \in Range(s) : m <= x

\* list.remove(v): removes the first occurrence of v
RemoveFirst(s, v) ==
    LET at == CHOOSE x \in DOMAIN s : s[x] = v /\ \A y \in 1..(x - 1) : s[y] # v
    IN  SubSeq(s, 1, at - 1) \o SubSeq(s, at + 1, Len(s))

RECURSIVE InsertDesc(_, _)
InsertDesc(s, v) ==
    IF s = << >> THEN << v >>
    ELSE IF v > Head(s) THEN << v >> \o s
         ELSE << Head(s) >> \o InsertDesc(Tail(s), v)

\* a sort that leaves the list as it is
SortDesc_Unsorted(s) == s

RECURSIVE SortDesc(_)
\* list.sort(reverse=True) on integers
SortDesc(s) == IF s = << >> THEN << >> ELSE InsertDesc(SortDesc(Tail(s)), Head(s))

-----------------------------------------------------------------------------
(* Python str, as sequences of characters *)

DigitChars == << "0", "1", "2", "3", "4", "5", "6", "7", "8", "9" >>

IsDigit(c) == \E d \in DOMAIN DigitChars : DigitChars[d] = c

DigitVal(c) == (CHOOSE d \in DOMAIN DigitChars : DigitChars[d] = c) - 1

RECURSIVE IntToStr(_)
\* str(n)
IntToStr(n) ==
    IF n < 0 THEN << "-" >> \o IntToStr(0 - n)
    ELSE IF n < 10 THEN << DigitChars[n + 1] >>
    ELSE IntToStr(n \div 10) \o << DigitChars[(n % 10) + 1] >>

RECURSIVE DigitsToInt(_)
DigitsToInt(s) ==
    IF s = << >> THEN 0
    ELSE 10 * DigitsToInt(SubSeq(s, 1, Len(s) - 1)) + DigitVal(s[Len(s)])

\* int(s) succeeds: an optional sign and then digits only
IsIntStr(s) ==
    LET body == IF s # << >> /\ Head(s) \in {"-", "+"} THEN Tail(s) ELSE s
    IN  body # << >> /\ \A x \in DOMAIN body : IsDigit(body[x])

\* int(s)
StrToInt(s) ==
    IF Head(s) = "-" THEN 0 - DigitsToInt(Tail(s))
    ELSE IF Head(s) = "+" THEN DigitsToInt(Tail(s))
    ELSE DigitsToInt(s)

RECURSIVE StripLeft(_, _)
StripLeft(s, cs) ==
    IF s # << >> /\ Head(s) \in cs THEN StripLeft(Tail(s), cs) ELSE s

RECURSIVE StripRight(_, _)
StripRight(s, cs) ==
    IF s # << >> /\ s[Len(s)] \in cs THEN StripRight(SubSeq(s, 1, Len(s) - 1), cs) ELSE s

\* s.strip(chars)
StripChars(s, cs) == StripRight(StripLeft(s, cs), cs)

\* s.strip()
Strip(s) == StripChars(s, {" "})

UpperChars == << "A", "B" >>
LowerChars == << "a", "b" >>

LowerChar(c) ==
    IF \E x \in DOMAIN UpperChars : UpperChars[x] = c
    THEN LowerChars[CHOOSE x \in DOMAIN UpperChars : UpperChars[x] = c]
    ELSE c

\* s.lower()
Lower(s) == [x \in DOMAIN s |-> LowerChar(s[x])]

RECURSIVE Split(_, _)
\* s.split(sep) for a one-character separator
Split(s, sep) ==
    IF \A x \in DOMAIN s : s[x] # sep THEN << s >>
    ELSE LET at == CHOOSE x \in DOMAIN s : s[x] = sep /\ \A y \in 1..(x - 1) : s[y] # sep
         IN  << SubSeq(s, 1, at - 1) >> \o Split(SubSeq(s, at + 1, Len(s)), sep)

RECURSIVE Join(_, _)
\* sep.join(parts)
Join(parts, sep) ==
    IF parts = << >> THEN << >>
    ELSE IF Len(parts) = 1 THEN parts[1]
    ELSE parts[1] \o sep \o Join(Tail(parts), sep)

-----------------------------------------------------------------------------
(* NAStandingsManager *)

\* the table with its last loop one placement short: range(513, 1024)
real_points_Short ==
    [p \in 1..1023 |->
        IF p = 1 THEN 500
        ELSE IF p = 2 THEN 480
        ELSE IF p <= 4 THEN 420
        ELSE IF p <= 8 THEN 380
        ELSE IF p <= 16 THEN 300
        ELSE IF p <= 32 THEN 200
        ELSE IF p <= 64 THEN 150
        ELSE IF p < 129 THEN 120
        ELSE IF p < 257 THEN 100
        ELSE IF p < 513 THEN 80
        ELSE 40]

\* The official table built by __init__: literal entries 1..64, then the loops
\* range(65,129), range(129,257), range(257,513), range(513,1025).
real_points ==
    [p \in 1..1024 |->
        IF p = 1 THEN 500
        ELSE IF p = 2 THEN 480
        ELSE IF p <= 4 THEN 420
        ELSE IF p <= 8 THEN 380
        ELSE IF p <= 16 THEN 300
        ELSE IF p <= 32 THEN 200
        ELSE IF p <= 64 THEN 150
        ELSE IF p < 129 THEN 120
        ELSE IF p < 257 THEN 100
        ELSE IF p < 513 THEN 80
        ELSE 40]

\* get_championship_points over a given table.  The variable points_table holds
\* the entries written over real_points.copy() since construction (none at
\* construction), so a key is in the table when it is in either.
LookupPoints(table, placement) ==
    IF placement \in DOMAIN table THEN Some(table[placement])
    ELSE IF placement \in DOMAIN real_points THEN Some(real_points[placement])
    ELSE None

get_championship_points(placement) == LookupPoints(points_table, placement)

\* parse_cp_finishes: "" and NaN (both the empty sequence here) give [];
\* quotes are stripped, the rest is split on commas, blank items are skipped,
\* and one item that int() rejects makes the whole result [].
parse_cp_finishes(cp_finishes_str) ==
    IF cp_finishes_str = << >> THEN << >>
    ELSE LET finishes_str == StripChars(StripChars(cp_finishes_str, {"\""}), {"'"})
             items == Split(finishes_str, ",")
             kept  == SelectSeq(items, LAMBDA x : Strip(x) # << >>)
         IN  IF finishes_str = << >> THEN << >>
             ELSE IF \E x \in DOMAIN kept : ~IsIntStr(Strip(kept[x])) THEN << >>
             ELSE [x \in DOMAIN kept |-> StrToInt(Strip(kept[x]))]

\* ', '.join(map(str, current_finishes))
FormatFinishes(current_finishes) ==
    Join([x \in DOMAIN current_finishes |-> IntToStr(current_finishes[x])], << ",", " " >>)

\* the mask of update_player_finishes: lower-cased equality on either name
NameMask(st, player_name) ==
    { r \in DOMAIN st : \/ Lower(st[r].NA_Name) = Lower(player_name)
                        \/ Lower(st[r].Top_X_Name) = Lower(player_name) }

\* the last row of the mask instead of the first
FirstMatch_Last(mask) == CHOOSE r \in mask : \A q \in mask : r >= q

\* mask.idxmax(): the first row of the mask
FirstMatch(mask) == CHOOSE r \in mask : \A q \in mask : r <= q

\* the rule with `new_points >= min_finish` for the replacement
ApplyFiveFinishRule_Geq(current_finishes, new_points) ==
    IF Len(current_finishes) < 5 THEN Some(Append(current_finishes, new_points))
    ELSE LET min_finish == MinSeq(current_finishes)
         IN  IF new_points >= min_finish
             THEN Some(Append(RemoveFirst(current_finishes, min_finish), new_points))
             ELSE None

\* the rule without the limit of 5: the value is always appended
ApplyFiveFinishRule_NoLimit(current_finishes, new_points) ==
    Some(Append(current_finishes, new_points))

\* the rule comparing with the minimum whatever the number of finishes
ApplyFiveFinishRule_OnlyIfBetter(current_finishes, new_points) ==
    IF current_finishes = << >> THEN Some(Append(current_finishes, new_points))
    ELSE LET min_finish == MinSeq(current_finishes)
         IN  IF new_points > min_finish
             THEN IF Len(current_finishes) < 5
                  THEN Some(Append(current_finishes, new_points))
                  ELSE Some(Append(RemoveFirst(current_finishes, min_finish), new_points))
             ELSE None

\* the rule replacing the lowest of 5 finishes whatever the new value
ApplyFiveFinishRule_AlwaysReplaces(current_finishes, new_points) ==
    IF Len(current_finishes) < 5 THEN Some(Append(current_finishes, new_points))
    ELSE Some(Append(RemoveFirst(current_finishes, MinSeq(current_finishes)), new_points))

\* the rule removing the highest of 5 finishes instead of the lowest
ApplyFiveFinishRule_ReplacesHighest(current_finishes, new_points) ==
    IF Len(current_finishes) < 5 THEN Some(Append(current_finishes, new_points))
    ELSE IF new_points > MinSeq(current_finishes)
         THEN Some(Append(RemoveFirst(current_finishes,
                                      CHOOSE m \in Range(current_finishes) :
                                          \A v \in Range(current_finishes) : v <= m),
                          new_points))
         ELSE None

\* the 5-finish rule: the new list, or None for the early "return False"
ApplyFiveFinishRule(current_finishes, new_points) ==
    IF Len(current_finishes) < 5 THEN Some(Append(current_finishes, new_points))
    ELSE LET min_finish == MinSeq(current_finishes)
         IN  IF new_points > min_finish
             THEN Some(Append(RemoveFirst(current_finishes, min_finish), new_points))
             ELSE None

\* update_player_finishes writing the new total into 'Locals CP' as well
update_player_finishes_WritesLocals(st, player_name, new_points) ==
    LET mask == NameMask(st, player_name)
    IN  IF mask = {}
        THEN [st |-> st, ret |-> FALSE, player_idx |-> 0, current_finishes |-> << >>]
        ELSE
          LET player_idx == FirstMatch(mask)
              player_row == st[player_idx]
              current_finishes == parse_cp_finishes(player_row.CP_Finishes)
              ruled == ApplyFiveFinishRule(current_finishes, new_points)
          IN  IF ruled.none
              THEN [st |-> st, ret |-> FALSE, player_idx |-> player_idx,
                    current_finishes |-> current_finishes]
              ELSE
                LET sorted == SortDesc(ruled.v)
                    new_top_x_cp == SumSeq(sorted)
                    new_total_cp == new_top_x_cp + player_row.Locals_CP
                IN  [st |-> [st EXCEPT ![player_idx].CP_Finishes = FormatFinishes(sorted),
                                       ![player_idx].Top_X_CP = new_top_x_cp,
                                       ![player_idx].Total_CP = new_total_cp,
                                       ![player_idx].Locals_CP = new_total_cp],
                     ret |-> TRUE, player_idx |-> player_idx,
                     current_finishes |-> current_finishes]

\* update_player_finishes as a function of the ledger: the ledger afterwards,
\* the value returned, and the locals player_idx (0: no row) and
\* current_finishes as parsed before the rule is applied.
update_player_finishes(st, player_name, new_points) ==
    LET mask == NameMask(st, player_name)
    IN  IF mask = {}
        THEN [st |-> st, ret |-> FALSE, player_idx |-> 0, current_finishes |-> << >>]
        ELSE
          LET player_idx == FirstMatch(mask)
              player_row == st[player_idx]
              current_finishes == parse_cp_finishes(player_row.CP_Finishes)
              ruled == ApplyFiveFinishRule(current_finishes, new_points)
          IN  IF ruled.none
              THEN [st |-> st, ret |-> FALSE, player_idx |-> player_idx,
                    current_finishes |-> current_finishes]
              ELSE
                LET sorted == SortDesc(ruled.v)
                    new_top_x_cp == SumSeq(sorted)
                    new_total_cp == new_top_x_cp + player_row.Locals_CP
                IN  [st |-> [st EXCEPT ![player_idx].CP_Finishes = FormatFinishes(sorted),
                                       ![player_idx].Top_X_CP = new_top_x_cp,
                                       ![player_idx].Total_CP = new_total_cp],
                     ret |-> TRUE, player_idx |-> player_idx,
                     current_finishes |-> current_finishes]

\* the record kept in `call` for an update_player_finishes call
CallOf(player_name, new_points, u) ==
    [op |-> "update_player_finishes", player_name |-> player_name,
     new_points |-> new_points, player_idx |-> u.player_idx,
     current_finishes |-> u.current_finishes]

NoCall == [op |-> "none"]

\* load_na_data's lookup: every non-empty lower().strip() of a row's two names,
\* a later row overwriting an earlier one
BuildLookup(st) ==
    LET keysOf(r) == { n \in { Strip(Lower(st[r].NA_Name)), Strip(Lower(st[r].Top_X_Name)) } :
                       n # << >> }
        keys == UNION { keysOf(r) : r \in DOMAIN st }
    IN  [n \in keys |-> CHOOSE r \in DOMAIN st :
                          n \in keysOf(r) /\ \A q \in DOMAIN st : n \in keysOf(q) => q <= r]

\* is_na_player
is_na_player(player_name) == Strip(Lower(player_name)) \in DOMAIN na_lookup

\* _process_individual_player on a given ledger: the ledger afterwards, the
\* value returned, and the update_player_finishes call it made, if any
process_individual_player(st, player_name, placement) ==
    IF is_na_player(player_name)
    THEN LET points == get_championship_points(placement)
         IN  IF Truthy(points)
             THEN LET u == update_player_finishes(st, player_name, points.v)
                  IN  [st |-> u.st, ret |-> u.ret, call |-> CallOf(player_name, points.v, u)]
             ELSE [st |-> st, ret |-> FALSE, call |-> NoCall]
    ELSE [st |-> st, ret |-> FALSE, call |-> NoCall]

RECURSIVE ProcessRows(_, _, _)
\* the loop of process_tournament_results over DataFrame rows, in row order:
\* the ledger afterwards and the last update_player_finishes call and result
ProcessRows(acc, rows, n) ==
    IF n > Len(rows) THEN acc
    ELSE LET r == process_individual_player(acc.st, rows[n].name, rows[n].final_placement)
         IN  ProcessRows([st |-> r.st,
                          ret |-> IF r.call = NoCall THEN acc.ret ELSE r.ret,
                          call |-> IF r.call = NoCall THEN acc.call ELSE r.call],
                         rows, n + 1)

RECURSIVE ProcessList_StopsAtFailure(_, _, _)
\* the loop over a list given up at the first award that fails
ProcessList_StopsAtFailure(acc, results, n) ==
    IF n > Len(results) THEN acc
    ELSE LET player_name == results[n].player_name
             placement == results[n].final_placement
             points == get_championship_points(placement)
         IN  IF is_na_player(player_name) /\ Truthy(points)
             THEN LET u == update_player_finishes(acc.st, player_name, points.v)
                      now == [st |-> u.st, ret |-> u.ret,
                              call |-> CallOf(player_name, points.v, u)]
                  IN  IF u.ret THEN ProcessList_StopsAtFailure(now, results, n + 1) ELSE now
             ELSE ProcessList_StopsAtFailure(acc, results, n + 1)

RECURSIVE ProcessList(_, _, _)
\* the loop of process_tournament_results over a list of dicts with the keys
\* 'player_name' and 'final_placement' (the multi-event form), in list order
ProcessList(acc, results, n) ==
    IF n > Len(results) THEN acc
    ELSE LET player_name == results[n].player_name
             placement == results[n].final_placement
             points == get_championship_points(placement)
         IN  IF is_na_player(player_name) /\ Truthy(points)
             THEN LET u == update_player_finishes(acc.st, player_name, points.v)
                  IN  ProcessList([st |-> u.st, ret |-> u.ret,
                                   call |-> CallOf(player_name, points.v, u)],
                                  results, n + 1)
             ELSE ProcessList(acc, results, n + 1)

-----------------------------------------------------------------------------
(* The data a run starts from *)

\* the names of ledger row r in the CSV
NAName(r) == << "A" >> \o [x \in 1..r |-> "b"]
TopXName(r) == IF r = 1 THEN << "B", "a", " " >> ELSE << "a" >> \o [x \in 1..(r - 1) |-> "B"]
LocalsOf(r) == 25 * r

\* the 'CP Finishes' cells a CSV may hold at load time, and their separators
InitFinishes == { << >>, << 500, 480, 420, 420, 380 >> }
CsvSeparators == { << ",", " " >>, << "," >> }

CsvFinishes(finishes, sep) ==
    Join([x \in DOMAIN finishes |-> IntToStr(finishes[x])], sep)

LedgerRow(r, finishes, sep) ==
    [NA_Name |-> NAName(r), Top_X_Name |-> TopXName(r),
     CP_Finishes |-> CsvFinishes(finishes, sep),
     Top_X_CP |-> SumSeq(finishes), Locals_CP |-> LocalsOf(r),
     Total_CP |-> SumSeq(finishes) + LocalsOf(r)]

\* every ledger the CSV may hold
Ledgers ==
    { [r \in 1..NumRows |-> LedgerRow(r, f[r], s[r])] :
        f \in [1..NumRows -> InitFinishes], s \in [1..NumRows -> CsvSeparators] }

\* the ledger of the tournament runs: row 1 full, the others empty
BaseLedger ==
    [r \in 1..NumRows |->
        LedgerRow(r, IF r = 1 THEN << 500, 480, 420, 420, 380 >> ELSE << >>, << ",", " " >>)]

\* names and values the ledger is called with
CallNames == { << "a", "b" >>, << "A", "B", "B" >>, << "b", "a" >>,
               << "B", "A", " " >>, << "b", "b" >> }
AwardValues == { 400, 500 }
CallPlacements == { 1, 1025 }

\* the result lists process_tournament_results is called with
ResultLists ==
    { << [player_name |-> a, final_placement |-> p], [player_name |-> b, final_placement |-> q] >> :
        a \in { << "A", "B", "B" >>, << "b", "a" >> },
        b \in { << "B", "A", " " >>, << "b", "b" >> },
        p \in CallPlacements, q \in CallPlacements }

\* the placements get_championship_points is called with
LookupPlacements == 0..(1024 + PlacementSlack)

\* no track_140th_place_experiment call has been made
NoExperiment == [pc |-> "none"]

\* no run_tournament call and no experiment has been made
RunIdle ==
    /\ pc = "idle"
    /\ seed = 0
    /\ rng = 0
    /\ df = << >>
    /\ round_num = 0
    /\ pairings = << >>
    /\ paired = {}
    /\ point_totals = << >>
    /\ bracket_list = << >>
    /\ i = 0
    /\ k = 0
    /\ tournament_result = None
    /\ experiment = NoExperiment

\* NAStandingsManager() on any CSV of the bounds
InitLedger ==
    /\ na_standings \in Ledgers
    /\ na_lookup = BuildLookup(na_standings)
    /\ points_table = << >>
    /\ track_na_standings = TRUE
    /\ call = NoCall
    /\ ret = FALSE
    /\ RunIdle

\* TournamentSimulator(track_na_standings=True) on the base ledger
Init ==
    /\ na_standings = BaseLedger
    /\ na_lookup = BuildLookup(na_standings)
    /\ points_table = << >>
    /\ track_na_standings = TRUE
    /\ call = NoCall
    /\ ret = FALSE
    /\ RunIdle

-----------------------------------------------------------------------------
(* Calls on the ledger *)

UpdatePlayerFinishes(player_name, new_points) ==
    /\ pc = "idle"
    /\ \E u \in { update_player_finishes(na_standings, player_name, new_points) } :
           /\ na_standings' = u.st
           /\ ret' = u.ret
           /\ call' = CallOf(player_name, new_points, u)
    /\ UNCHANGED << na_lookup, points_table, track_na_standings, runVars, experiment >>

ProcessIndividualPlayer(player_name, placement) ==
    /\ pc = "idle"
    /\ \E r \in { process_individual_player(na_standings, player_name, placement) } :
           /\ na_standings' = r.st
           /\ ret' = r.ret
           /\ call' = IF r.call = NoCall
                      THEN [op |-> "_process_individual_player", player_name |-> player_name,
                            placement |-> placement]
                      ELSE r.call
    /\ UNCHANGED << na_lookup, points_table, track_na_standings, runVars, experiment >>

\* process_tournament_results(list): nothing is returned; `ret` keeps what the
\* last update_player_finishes call of the loop returned
ProcessTournamentResults(tournament_results) ==
    /\ pc = "idle"
    /\ \E r \in { ProcessList([st |-> na_standings, ret |-> ret, call |-> call],
                               tournament_results, 1) } :
           /\ na_standings' = r.st
           /\ ret' = r.ret
    /\ call' = [op |-> "process_tournament_results", tournament_results |-> tournament_results]
    /\ UNCHANGED << na_lookup, points_table, track_na_standings, runVars, experiment >>

NextLedger ==
    \/ \E n \in CallNames, p \in AwardValues : UpdatePlayerFinishes(n, p)
    \/ \E n \in CallNames, p \in CallPlacements : ProcessIndividualPlayer(n, p)
    \/ \E t \in ResultLists : ProcessTournamentResults(t)

SpecLedger == InitLedger /\ [][NextLedger]_vars

\* get_championship_points(placement) on the table as constructed
GetChampionshipPoints(placement) ==
    /\ pc = "idle"
    /\ call' = [op |-> "get_championship_points", placement |-> placement]
    /\ ret' = get_championship_points(placement)
    /\ UNCHANGED << ledgerVars, runVars, experiment >>

NextPoints == \E p \in LookupPlacements : GetChampionshipPoints(p)

SpecPoints == Init /\ [][NextPoints]_vars

\* ---- update_points_table ----

\* the dictionaries update_points_table is called with: any values on any
\* non-empty set of these placements
UpdateKeys == { 1, 2, 1025 }
UpdateValues == { 40, 400, 500 }
NewPointsDicts ==
    UNION { [K -> UpdateValues] : K \in (SUBSET UpdateKeys) \ { {} } }

\* dict.update: the given entries are written over the table
DictUpdate(table, new_points_dict) ==
    [p \in (DOMAIN table) \cup (DOMAIN new_points_dict) |->
        IF p \in DOMAIN new_points_dict THEN new_points_dict[p] ELSE table[p]]

\* update_points_table(new_points_dict)
UpdatePointsTable(new_points_dict) ==
    /\ pc = "idle"
    /\ points_table' = DictUpdate(points_table, new_points_dict)
    /\ call' = [op |-> "update_points_table", new_points_dict |-> new_points_dict]
    /\ UNCHANGED << na_standings, na_lookup, track_na_standings, ret, runVars, experiment >>

NextTable == \E d \in NewPointsDicts : UpdatePointsTable(d)

SpecTable == Init /\ [][NextTable]_vars

\* ---- a sequence of awards to one ledger entity ----

\* awards made to one entity in a sequence
MaxAwards == 6
\* the values awarded: table values below, among and above the loaded finishes
AwardChoices == { 40, 420, 500 }

\* a ledger as loaded, and an entity named by the 'NA Name' of one of its rows,
\* before the first award of the sequence
InitAwards ==
    /\ na_standings \in Ledgers
    /\ na_lookup = BuildLookup(na_standings)
    /\ points_table = << >>
    /\ track_na_standings = TRUE
    /\ \E r \in 1..NumRows :
          call = [op |-> "awards", player_name |-> NAName(r),
                  initial_standings |-> na_standings, awarded |-> << >>]
    /\ ret = FALSE
    /\ RunIdle

\* the next update_player_finishes(player_name, new_points) of the sequence
Award(new_points) ==
    /\ call.op = "awards"
    /\ Len(call.awarded) < MaxAwards
    /\ \E u \in { update_player_finishes(na_standings, call.player_name, new_points) } :
          /\ na_standings' = u.st
          /\ ret' = u.ret
    /\ call' = [call EXCEPT !.awarded = Append(@, new_points)]
    /\ UNCHANGED << na_lookup, points_table, track_na_standings, runVars, experiment >>

NextAwards == \E new_points \in AwardChoices : Award(new_points)

SpecAwards == InitAwards /\ [][NextAwards]_vars

-----------------------------------------------------------------------------
(* TournamentSimulator: skill model and match outcome *)

\* one unit of the fixed-point floats: 1.0 is Scale
Scale == 10000

\* calculate_skill_level, in units of 1/Scale, each division rounding down.
\* (cp / 331) ** 10 is computed by squaring: r^2, r^4, r^8, r^8 * r^2.
calculate_skill_level(cp) ==
    IF cp <= 331
    THEN LET r  == (cp * Scale) \div 331
             r2 == (r * r) \div Scale
             r4 == (r2 * r2) \div Scale
             r8 == (r4 * r4) \div Scale
             r10 == (r8 * r2) \div Scale
         IN  (2 * Scale) \div 10 + r10 \div 10
    ELSE IF cp <= 500
    THEN (30 * Scale) \div 100 + (((20 * Scale) \div 100) * (cp - 332)) \div 168
    ELSE IF cp <= 800
    THEN (50 * Scale) \div 100 + (((30 * Scale) \div 100) * (cp - 501)) \div 299
    ELSE LET progress == IF cp - 801 < 1000 THEN ((cp - 801) * Scale) \div 1000 ELSE Scale
         IN  (70 * Scale) \div 100 + (20 * progress) \div 100

\* the penalty with "high" starting above 500 instead of at 500
MatchSkills_HighAbove500(p1_cp, p2_cp) ==
    LET p1_skill == calculate_skill_level(p1_cp)
        p2_skill == calculate_skill_level(p2_cp)
    IN  IF p1_cp <= 331 /\ p2_cp > 500
        THEN [p1_skill |-> (p1_skill * 25) \div 100, p2_skill |-> p2_skill, brutal |-> TRUE]
        ELSE IF p2_cp <= 331 /\ p1_cp > 500
        THEN [p1_skill |-> p1_skill, p2_skill |-> (p2_skill * 25) \div 100, brutal |-> TRUE]
        ELSE [p1_skill |-> p1_skill, p2_skill |-> p2_skill, brutal |-> FALSE]

\* the two skills after the brutal-matchup penalty, and the flag
MatchSkills(p1_cp, p2_cp) ==
    LET p1_skill == calculate_skill_level(p1_cp)
        p2_skill == calculate_skill_level(p2_cp)
        p1_is_low == p1_cp <= 331
        p2_is_low == p2_cp <= 331
        p1_is_high == p1_cp >= 500
        p2_is_high == p2_cp >= 500
    IN  IF p1_is_low /\ p2_is_high
        THEN [p1_skill |-> (p1_skill * 25) \div 100, p2_skill |-> p2_skill, brutal |-> TRUE]
        ELSE IF p2_is_low /\ p1_is_high
        THEN [p1_skill |-> p1_skill, p2_skill |-> (p2_skill * 25) \div 100, brutal |-> TRUE]
        ELSE [p1_skill |-> p1_skill, p2_skill |-> p2_skill, brutal |-> FALSE]

\* the win probability clamped to [0, 1] instead of [0.001, 0.999]
WinProb_ClampedToUnit(p1_skill, p2_skill) ==
    LET raw == Scale \div 2 + (p1_skill - p2_skill)
    IN  IF raw > Scale THEN Scale ELSE IF raw < 0 THEN 0 ELSE raw

\* max(0.001, min(0.999, 0.5 + skill_diff))
WinProb(p1_skill, p2_skill) ==
    LET raw == Scale \div 2 + (p1_skill - p2_skill)
        hi  == (999 * Scale) \div 1000
        lo  == Scale \div 1000
    IN  IF raw > hi THEN hi ELSE IF raw < lo THEN lo ELSE raw

\* simulate_match for a draw rand_val of random.random(), in units of 1/Scale:
\* rand_val < 0.15 is a tie, rand_val < 0.15 + p1_win_prob * 0.85 a win of player 1
simulate_match(p1_cp, p2_cp, rand_val) ==
    LET sk == MatchSkills(p1_cp, p2_cp)
        p1_win_prob == WinProb(sk.p1_skill, sk.p2_skill)
    IN  [outcome |-> IF 100 * rand_val < 15 * Scale THEN "tie"
                     ELSE IF 100 * rand_val < 15 * Scale + 85 * p1_win_prob THEN "player1_wins"
                     ELSE "player2_wins",
         brutal |-> sk.brutal]

\* ---- calls of calculate_skill_level and simulate_match on their own ----

\* ratings above the one where the elite range saturates, (cp - 801) / 1000 = 1
RatingSlack == 4
\* draws of random.random() are taken at this many evenly spaced points of [0, 1)
DrawSteps == 20

\* the ratings calculate_skill_level is called with
SkillRatings == 0..(1801 + RatingSlack)

\* the ratings simulate_match is called with: both sides of every threshold
MatchRatings == { 0, 330, 331, 332, 499, 500, 501, 800, 801, 1801 }

\* the draws random.random() returns inside simulate_match, in units of 1/Scale:
\* evenly spaced ones, the two around the tie threshold and the largest
MatchDraws ==
    { (d * Scale) \div DrawSteps : d \in 0..(DrawSteps - 1) }
        \cup { (15 * Scale) \div 100 - 1, (15 * Scale) \div 100, Scale - 1 }

\* a call of the skill model that has been made and has not returned yet
InitMatch ==
    /\ na_standings = BaseLedger
    /\ na_lookup = BuildLookup(na_standings)
    /\ points_table = << >>
    /\ track_na_standings = TRUE
    /\ \/ \E cp \in SkillRatings : call = [op |-> "calculate_skill_level", cp |-> cp]
       \/ \E p1_cp \in MatchRatings, p2_cp \in MatchRatings, rand_val \in MatchDraws :
              call = [op |-> "simulate_match", p1_cp |-> p1_cp, p2_cp |-> p2_cp,
                      rand_val |-> rand_val]
    /\ ret = None
    /\ RunIdle

\* calculate_skill_level(cp) returns
CalculateSkillLevel ==
    /\ call.op = "calculate_skill_level"
    /\ ret = None
    /\ ret' = Some(calculate_skill_level(call.cp))
    /\ UNCHANGED << ledgerVars, runVars, experiment, call >>

\* simulate_match(p1_cp, p2_cp) returns (outcome, is_brutal_matchup); the locals
\* p1_skill, p2_skill and p1_win_prob are kept with the returned pair
SimulateMatch ==
    /\ call.op = "simulate_match"
    /\ ret = None
    /\ ret' = Some([outcome |-> simulate_match(call.p1_cp, call.p2_cp, call.rand_val).outcome,
                    is_brutal_matchup |-> simulate_match(call.p1_cp, call.p2_cp, call.rand_val).brutal,
                    p1_skill |-> MatchSkills(call.p1_cp, call.p2_cp).p1_skill,
                    p2_skill |-> MatchSkills(call.p1_cp, call.p2_cp).p2_skill,
                    p1_win_prob |-> WinProb(MatchSkills(call.p1_cp, call.p2_cp).p1_skill,
                                            MatchSkills(call.p1_cp, call.p2_cp).p2_skill)])
    /\ UNCHANGED << ledgerVars, runVars, experiment, call >>

NextMatch == CalculateSkillLevel \/ SimulateMatch

SpecMatch == InitMatch /\ [][NextMatch]_vars

\* Python's `random`: random.seed(seed) fixes the state, every random.random()
\* advances it and returns the new state as a fraction of Scale.  The generator
\* is a full-period linear congruential one.
SeedState(s) == (7200 * s + 6400) % Scale
NextRandom(state) == (4821 * state + 3) % Scale

-----------------------------------------------------------------------------
(* TournamentSimulator: players and pairing *)

\* the player database, in load order
DbPlayerId(n) == 100 + n
DbCPs == << 620, 520, 400, 330, 300, 100 >>
DbCP(n) == IF n <= Len(DbCPs) THEN DbCPs[n] ELSE 0
DbNames == << << "A", "B" >>, << "b", "a" >>, << "B", "b" >>, << "a", "b", "b" >> >>
DbName(n) == IF n <= Len(DbNames) THEN DbNames[n] ELSE << "b" >> \o [x \in 1..n |-> "a"]

\* the pairing partner of a bye ('BYE' in the place of a player id), and the
\* opponent name 'BYE' of its match record
BYE == 0
ByeName == << "B", "Y", "E" >>

\* final_placement of a row that has none (the column is missing or NaN)
NoPlacement == 0

\* load_players: the first num_players rows of the database, clamped to its size
load_players(num_players) ==
    LET n == IF NumPlayers < num_players THEN NumPlayers ELSE num_players
    IN  [x \in 1..n |->
            [player_id |-> DbPlayerId(x), name |-> DbName(x), cp |-> DbCP(x),
             match_points |-> 0, wins |-> 0, losses |-> 0, ties |-> 0,
             opponents_played |-> {}, is_active |-> TRUE,
             match_history |-> << >>, final_placement |-> NoPlacement]]

\* df[df['player_id'] == player_id].index[0]
IdxOf(d, player_id) ==
    CHOOSE x \in DOMAIN d : d[x].player_id = player_id /\ \A y \in 1..(x - 1) : d[y].player_id # player_id

\* the selection without its mask
ActiveRows_All(d) == DOMAIN d

\* active = df[df['is_active']], as row positions
ActiveRows(d) == { x \in DOMAIN d : d[x].is_active }

RECURSIVE SetToDescSeq(_)
\* sorted(set, reverse=True)
SetToDescSeq(S) ==
    IF S = {} THEN << >>
    ELSE LET m == CHOOSE x \in S : \A y \in S : y <= x
         IN  << m >> \o SetToDescSeq(S \ {m})

\* sorted(active['match_points'].unique(), reverse=True)
PointTotals(d) == SetToDescSeq({ d[x].match_points : x \in ActiveRows(d) })

\* the bracket without the test on the point total: every active player not
\* yet paired
BracketPlayers_AnyPoints(d, points, done) ==
    { d[x].player_id : x \in { y \in ActiveRows(d) : d[y].player_id \notin done } }

\* the ids of the bracket: active players with this point total, not yet paired
BracketPlayers(d, points, done) ==
    { d[x].player_id : x \in { y \in ActiveRows(d) : d[y].match_points = points
                                                     /\ d[y].player_id \notin done } }

\* every order sample(frac=1.0) can give a bracket
Shuffles(S) ==
    { f \in [1..Cardinality(S) -> S] : \A x, y \in 1..Cardinality(S) : f[x] = f[y] => x = y }

MinOf(S) == CHOOSE x \in S : \A y \in S : x <= y

\* the search without its first loop: the first later player not paired
FindOpponent_FirstUnpaired(d, list, at, done) ==
    LET anyone == { j \in (at + 1)..Len(list) : list[j] \notin done }
    IN  IF anyone # {} THEN MinOf(anyone) ELSE 0

\* the search without its second loop: no opponent unless one not played before
FindOpponent_NoRematch(d, list, at, done) ==
    LET played == d[IdxOf(d, list[at])].opponents_played
        fresh  == { j \in (at + 1)..Len(list) : list[j] \notin done /\ list[j] \notin played }
    IN  IF fresh # {} THEN MinOf(fresh) ELSE 0

\* the opponent found for bracket_list[at]: the position of the first later
\* player not paired and not played before; failing that, of the first later
\* player not paired; 0 when neither loop finds one
FindOpponent(d, list, at, done) ==
    LET played == d[IdxOf(d, list[at])].opponents_played
        fresh  == { j \in (at + 1)..Len(list) : list[j] \notin done /\ list[j] \notin played }
        anyone == { j \in (at + 1)..Len(list) : list[j] \notin done }
    IN  IF fresh # {} THEN MinOf(fresh)
        ELSE IF anyone # {} THEN MinOf(anyone)
        ELSE 0

\* unpaired = active[~active['player_id'].isin(paired)]['player_id'].tolist()
Unpaired(d, done) ==
    LET rows == SelectSeq([x \in DOMAIN d |-> x],
                          LAMBDA x : d[x].is_active /\ d[x].player_id \notin done)
    IN  [x \in DOMAIN rows |-> d[rows[x]].player_id]

\* the final loop without its else branch: an odd last player gets nothing
LeftoverPairings_NoBye(unpaired) ==
    [x \in 1..(Len(unpaired) \div 2) |-> << unpaired[2 * x - 1], unpaired[2 * x] >>]

\* the final loop giving every unpaired player a bye
LeftoverPairings_AllByes(unpaired) ==
    [x \in 1..Len(unpaired) |-> << unpaired[x], BYE >>]

\* the final loop sparing participants who have had a bye: an odd list gives
\* its bye to the last participant without one, if there is any
LeftoverPairings_SparesByeHolders(unpaired) ==
    LET hadBye(id) == \E n \in DOMAIN df[IdxOf(df, id)].match_history :
                          df[IdxOf(df, id)].match_history[n].opponent = ByeName
        fresh == { x \in DOMAIN unpaired : ~hadBye(unpaired[x]) }
        last == IF fresh = {} THEN Len(unpaired)
                ELSE CHOOSE x \in fresh : \A y \in fresh : y <= x
        rest == SelectSeq([x \in DOMAIN unpaired |-> IF x = last THEN BYE ELSE unpaired[x]],
                          LAMBDA id : id # BYE)
    IN  IF Len(unpaired) % 2 = 0
        THEN [x \in 1..(Len(unpaired) \div 2) |-> << unpaired[2 * x - 1], unpaired[2 * x] >>]
        ELSE [x \in 1..(Len(rest) \div 2) |-> << rest[2 * x - 1], rest[2 * x] >>]
             \o << << unpaired[last], BYE >> >>

\* the final loop over the unpaired list: consecutive pairs, a bye for an odd last one
LeftoverPairings(unpaired) ==
    [x \in 1..((Len(unpaired) + 1) \div 2) |->
        IF 2 * x <= Len(unpaired) THEN << unpaired[2 * x - 1], unpaired[2 * x] >>
        ELSE << unpaired[2 * x - 1], BYE >>]

-----------------------------------------------------------------------------
(* TournamentSimulator: one pairing of simulate_round *)

MatchRecord(round, opponent, opponent_cp, result, brutal) ==
    [round |-> round, opponent |-> opponent, opponent_cp |-> opponent_cp,
     result |-> result, brutal |-> brutal]

\* the bye branch scoring the bye as a tie
ApplyBye_AsTie(d, player_id, round) ==
    LET idx == IdxOf(d, player_id)
    IN  [d EXCEPT ![idx].match_points = @ + 1,
                  ![idx].ties = @ + 1,
                  ![idx].match_history = Append(@, MatchRecord(round, ByeName, 0, "tie", FALSE))]

\* the bye branch without its match record
ApplyBye_NoRecord(d, player_id, round) ==
    LET idx == IdxOf(d, player_id)
    IN  [d EXCEPT ![idx].match_points = @ + 3,
                  ![idx].wins = @ + 1]

\* the bye branch without the win: the points and the record only
ApplyBye_NoWin(d, player_id, round) ==
    LET idx == IdxOf(d, player_id)
    IN  [d EXCEPT ![idx].match_points = @ + 3,
                  ![idx].match_history = Append(@, MatchRecord(round, ByeName, 0, "win", FALSE))]

\* the bye branch of simulate_round
ApplyBye(d, player_id, round) ==
    LET idx == IdxOf(d, player_id)
    IN  [d EXCEPT ![idx].match_points = @ + 3,
                  ![idx].wins = @ + 1,
                  ![idx].match_history = Append(@, MatchRecord(round, ByeName, 0, "win", FALSE))]

\* the match branch recording the opponent on the first side only
ApplyMatch_OneSided(d, p1_id, p2_id, round, rand_val) ==
    LET p1_idx == IdxOf(d, p1_id)
        p2_idx == IdxOf(d, p2_id)
        p1_cp == d[p1_idx].cp
        p2_cp == d[p2_idx].cp
        p1_name == d[p1_idx].name
        p2_name == d[p2_idx].name
        m == simulate_match(p1_cp, p2_cp, rand_val)
        met == [d EXCEPT ![p1_idx].opponents_played = @ \cup {p2_id}]
    IN  IF m.outcome = "player1_wins"
        THEN [met EXCEPT
                ![p1_idx].match_points = @ + 3,
                ![p1_idx].wins = @ + 1,
                ![p2_idx].losses = @ + 1,
                ![p1_idx].match_history = Append(@, MatchRecord(round, p2_name, p2_cp, "win", m.brutal)),
                ![p2_idx].match_history = Append(@, MatchRecord(round, p1_name, p1_cp, "loss", m.brutal))]
        ELSE IF m.outcome = "player2_wins"
        THEN [met EXCEPT
                ![p2_idx].match_points = @ + 3,
                ![p2_idx].wins = @ + 1,
                ![p1_idx].losses = @ + 1,
                ![p1_idx].match_history = Append(@, MatchRecord(round, p2_name, p2_cp, "loss", m.brutal)),
                ![p2_idx].match_history = Append(@, MatchRecord(round, p1_name, p1_cp, "win", m.brutal))]
        ELSE [met EXCEPT
                ![p1_idx].match_points = @ + 1,
                ![p2_idx].match_points = @ + 1,
                ![p1_idx].ties = @ + 1,
                ![p2_idx].ties = @ + 1,
                ![p1_idx].match_history = Append(@, MatchRecord(round, p2_name, p2_cp, "tie", m.brutal)),
                ![p2_idx].match_history = Append(@, MatchRecord(round, p1_name, p1_cp, "tie", m.brutal))]

\* the match branch of simulate_round, for the draw rand_val
ApplyMatch(d, p1_id, p2_id, round, rand_val) ==
    LET p1_idx == IdxOf(d, p1_id)
        p2_idx == IdxOf(d, p2_id)
        p1_cp == d[p1_idx].cp
        p2_cp == d[p2_idx].cp
        p1_name == d[p1_idx].name
        p2_name == d[p2_idx].name
        m == simulate_match(p1_cp, p2_cp, rand_val)
        met == [d EXCEPT ![p1_idx].opponents_played = @ \cup {p2_id},
                         ![p2_idx].opponents_played = @ \cup {p1_id}]
    IN  IF m.outcome = "player1_wins"
        THEN [met EXCEPT
                ![p1_idx].match_points = @ + 3,
                ![p1_idx].wins = @ + 1,
                ![p2_idx].losses = @ + 1,
                ![p1_idx].match_history = Append(@, MatchRecord(round, p2_name, p2_cp, "win", m.brutal)),
                ![p2_idx].match_history = Append(@, MatchRecord(round, p1_name, p1_cp, "loss", m.brutal))]
        ELSE IF m.outcome = "player2_wins"
        THEN [met EXCEPT
                ![p2_idx].match_points = @ + 3,
                ![p2_idx].wins = @ + 1,
                ![p1_idx].losses = @ + 1,
                ![p1_idx].match_history = Append(@, MatchRecord(round, p2_name, p2_cp, "loss", m.brutal)),
                ![p2_idx].match_history = Append(@, MatchRecord(round, p1_name, p1_cp, "win", m.brutal))]
        ELSE [met EXCEPT
                ![p1_idx].match_points = @ + 1,
                ![p2_idx].match_points = @ + 1,
                ![p1_idx].ties = @ + 1,
                ![p2_idx].ties = @ + 1,
                ![p1_idx].match_history = Append(@, MatchRecord(round, p2_name, p2_cp, "tie", m.brutal)),
                ![p2_idx].match_history = Append(@, MatchRecord(round, p1_name, p1_cp, "tie", m.brutal))]

-----------------------------------------------------------------------------
(* TournamentSimulator: final standings of run_tournament *)

\* the sort with its second key ascending
RanksBefore_WinsAscending(d, x, y) ==
    \/ d[x].match_points > d[y].match_points
    \/ d[x].match_points = d[y].match_points /\ d[x].wins < d[y].wins
    \/ d[x].match_points = d[y].match_points /\ d[x].wins = d[y].wins /\ x < y

\* the sort with rows equal on both keys in reversed DataFrame order
RanksBefore_TiesReversed(d, x, y) ==
    \/ d[x].match_points > d[y].match_points
    \/ d[x].match_points = d[y].match_points /\ d[x].wins > d[y].wins
    \/ d[x].match_points = d[y].match_points /\ d[x].wins = d[y].wins /\ x > y

\* row x sorts before row y under sort_values(['match_points', 'wins'],
\* ascending=[False, False]); rows equal on both keys keep their DataFrame order
RanksBefore(d, x, y) ==
    \/ d[x].match_points > d[y].match_points
    \/ d[x].match_points = d[y].match_points /\ d[x].wins > d[y].wins
    \/ d[x].match_points = d[y].match_points /\ d[x].wins = d[y].wins /\ x < y

\* the rows of a selection in sorted order
SortedRows(d, rows) ==
    LET pos(x) == Cardinality({ y \in rows : RanksBefore(d, y, x) }) + 1
    IN  [n \in 1..Cardinality(rows) |-> CHOOSE x \in rows : pos(x) = n]

\* final = df[df['is_active']].sort_values(...)
FinalRows(d) == SortedRows(d, { x \in DOMAIN d : d[x].is_active })

\* non_advancing = df[df['match_points'] < 19], sorted the same way
NonAdvancingRows(d) == SortedRows(d, { x \in DOMAIN d : d[x].match_points < 19 })

\* start_placement with the + 1 forgotten
StartPlacement_NoPlusOne(final) == Len(final)

\* start_placement = len(final_with_placement) + 1
StartPlacement(final) == Len(final) + 1

\* the two loops that write final_placement: 1.. over final, then
\* len(final) + 1.. over the sorted non-advancing rows
AssignPlacements(d) ==
    LET final == FinalRows(d)
        non_advancing_sorted == NonAdvancingRows(d)
        start_placement == StartPlacement(final)
        first == [x \in DOMAIN d |->
                    IF \E n \in DOMAIN final : final[n] = x
                    THEN [d[x] EXCEPT !.final_placement = CHOOSE n \in DOMAIN final : final[n] = x]
                    ELSE d[x]]
    IN  [x \in DOMAIN d |->
            IF \E n \in DOMAIN non_advancing_sorted : non_advancing_sorted[n] = x
            THEN [first[x] EXCEPT !.final_placement =
                     start_placement + (CHOOSE n \in DOMAIN non_advancing_sorted :
                                            non_advancing_sorted[n] = x) - 1]
            ELSE first[x]]

-----------------------------------------------------------------------------
(* run_tournament, step by step *)

\* the values run_tournament may be given for num_players
NumPlayersArgs == 1..(NumPlayers + 1)
\* the seeds int(datetime.now().timestamp()) % 1000000 may give
Seeds == 0..(NumSeeds - 1)

\* entry of generate_swiss_pairings for the DataFrame d
BeginPairing(d) ==
    /\ pairings' = << >>
    /\ paired' = {}
    /\ point_totals' = PointTotals(d)
    /\ bracket_list' = << >>
    /\ i' = 0
    /\ k' = 0
    /\ pc' = "bracket"

\* run_tournament up to the first round: seed, load_players, round 1 begins
StartRun(num_players, s) ==
    /\ pc = "idle"
    /\ seed' = s
    /\ rng' = SeedState(s)
    /\ df' = load_players(num_players)
    /\ round_num' = 1
    /\ BeginPairing(df')
    /\ UNCHANGED << ledgerVars, experiment, call, ret, tournament_result >>

\* `for points in point_totals`: the next bracket, skipped when empty,
\* shuffled otherwise
NextBracket ==
    /\ pc = "bracket"
    /\ point_totals # << >>
    /\ LET bracket_players == BracketPlayers(df, Head(point_totals), paired)
       IN  IF bracket_players = {}
           THEN UNCHANGED << bracket_list, i, pc >>
           ELSE /\ bracket_list' \in Shuffles(bracket_players)
                /\ i' = 1
                /\ pc' = "pair"
    /\ point_totals' = Tail(point_totals)
    /\ UNCHANGED << ledgerVars, experiment, call, ret, seed, rng, df, round_num, pairings, paired, k,
                    tournament_result >>

\* leaving the while loop of a bracket
LeaveBracket ==
    /\ bracket_list' = << >>
    /\ i' = 0
    /\ pc' = "bracket"

\* `while i < len(bracket_list)` is over
PairLoopEnd ==
    /\ pc = "pair"
    /\ i > Len(bracket_list)
    /\ LeaveBracket
    /\ UNCHANGED << ledgerVars, experiment, call, ret, seed, rng, df, round_num, pairings, paired,
                    point_totals, k, tournament_result >>

\* bracket_list[i] is paired already: i += 1; continue
PairSkip ==
    /\ pc = "pair"
    /\ i <= Len(bracket_list)
    /\ bracket_list[i] \in paired
    /\ i' = i + 1
    /\ UNCHANGED << ledgerVars, experiment, call, ret, seed, rng, df, round_num, pairings, paired,
                    point_totals, bracket_list, pc, k, tournament_result >>

\* an opponent is found for bracket_list[i] in its bracket
PairMake ==
    /\ pc = "pair"
    /\ i <= Len(bracket_list)
    /\ bracket_list[i] \notin paired
    /\ \E j \in { FindOpponent(df, bracket_list, i, paired) } :
          /\ j # 0
          /\ pairings' = Append(pairings, << bracket_list[i], bracket_list[j] >>)
          /\ paired' = paired \cup { bracket_list[i], bracket_list[j] }
    /\ i' = i + 1
    /\ UNCHANGED << ledgerVars, experiment, call, ret, seed, rng, df, round_num,
                    point_totals, bracket_list, pc, k, tournament_result >>

\* no opponent is left in the bracket: break, the player stays unpaired
PairBreak ==
    /\ pc = "pair"
    /\ i <= Len(bracket_list)
    /\ bracket_list[i] \notin paired
    /\ FindOpponent(df, bracket_list, i, paired) = 0
    /\ LeaveBracket
    /\ UNCHANGED << ledgerVars, experiment, call, ret, seed, rng, df, round_num, pairings, paired,
                    point_totals, k, tournament_result >>

\* all brackets are done: the unpaired players are paired in order, an odd last
\* one gets the bye; generate_swiss_pairings returns
PairLeftovers ==
    /\ pc = "bracket"
    /\ point_totals = << >>
    /\ \E unpaired \in { Unpaired(df, paired) } :
          /\ pairings' = pairings \o LeftoverPairings(unpaired)
          /\ paired' = paired \cup Range(unpaired)
    /\ k' = 1
    /\ pc' = "play"
    /\ UNCHANGED << ledgerVars, experiment, call, ret, seed, rng, df, round_num,
                    point_totals, bracket_list, i, tournament_result >>

\* simulate_round's loop: the k-th pairing is a bye
PlayBye ==
    /\ pc = "play"
    /\ k <= Len(pairings)
    /\ pairings[k][2] = BYE
    /\ df' = ApplyBye(df, pairings[k][1], round_num)
    /\ k' = k + 1
    /\ UNCHANGED << ledgerVars, experiment, call, ret, seed, rng, round_num, pairings, paired,
                    point_totals, bracket_list, i, pc, tournament_result >>

\* simulate_round's loop: the k-th pairing is a match, decided by one draw
PlayMatch ==
    /\ pc = "play"
    /\ k <= Len(pairings)
    /\ pairings[k][2] # BYE
    /\ rng' = NextRandom(rng)
    /\ df' = ApplyMatch(df, pairings[k][1], pairings[k][2], round_num, rng')
    /\ k' = k + 1
    /\ UNCHANGED << ledgerVars, experiment, call, ret, seed, round_num, pairings, paired,
                    point_totals, bracket_list, i, pc, tournament_result >>

\* Day 1 is range(1, 10), Day 2 is range(10, 14)
LastDay1Round == 9
LastDay2Round == 13
\* match points needed to advance
AdvancePoints == 19

\* the cutoff mask with <= for <
MissesCutoff_Inclusive(row) == row.match_points <= AdvancePoints

\* the cutoff mask one point lower: 18 match points advance
MissesCutoff_OnePointLower(row) == row.match_points < AdvancePoints - 1

\* the cutoff mask df['match_points'] < 19
MissesCutoff(row) == row.match_points < AdvancePoints

\* the loop over the rounds stepping by two
NextRound_SkipsARound ==
    /\ pc = "play"
    /\ k > Len(pairings)
    /\ round_num # LastDay1Round
    /\ round_num # LastDay2Round
    /\ round_num' = round_num + 2
    /\ BeginPairing(df)
    /\ UNCHANGED << ledgerVars, experiment, call, ret, seed, rng, df, tournament_result >>

\* a round other than the last of its day is over: the next round begins
NextRound ==
    /\ pc = "play"
    /\ k > Len(pairings)
    /\ round_num # LastDay1Round
    /\ round_num # LastDay2Round
    /\ round_num' = round_num + 1
    /\ BeginPairing(df)
    /\ UNCHANGED << ledgerVars, experiment, call, ret, seed, rng, df, tournament_result >>

\* round 9 is over: df.loc[df['match_points'] < 19, 'is_active'] = False,
\* then round 10 begins
Cutoff ==
    /\ pc = "play"
    /\ k > Len(pairings)
    /\ round_num = LastDay1Round
    /\ df' = [x \in DOMAIN df |->
                IF MissesCutoff(df[x])
                THEN [df[x] EXCEPT !.is_active = FALSE]
                ELSE df[x]]
    /\ round_num' = round_num + 1
    /\ BeginPairing(df')
    /\ UNCHANGED << ledgerVars, experiment, call, ret, seed, rng, tournament_result >>

\* round 13 is over: final placements, the ledger update when tracking is on,
\* and the result; of 'players_df' the result keeps the final placement of
\* every row, of 'final_standings' the ids in order
Finalize ==
    /\ pc = "play"
    /\ k > Len(pairings)
    /\ round_num = LastDay2Round
    /\ \E placed \in { AssignPlacements(df) } :
          /\ df' = placed
          /\ IF track_na_standings
             THEN \E r \in { ProcessRows([st |-> na_standings, ret |-> ret, call |-> call],
                                          placed, 1) } :
                     /\ na_standings' = r.st
                     /\ ret' = r.ret
                     /\ call' = r.call
             ELSE UNCHANGED << na_standings, ret, call >>
          /\ tournament_result' =
                Some([final_standings |-> [n \in DOMAIN FinalRows(df) |->
                                              df[FinalRows(df)[n]].player_id],
                      placements |-> [x \in DOMAIN df |-> placed[x].final_placement],
                      seed |-> seed])
    /\ pc' = "done"
    /\ UNCHANGED << na_lookup, points_table, track_na_standings, seed, rng, round_num,
                    pairings, paired, point_totals, bracket_list, i, k, experiment >>

Next ==
    \/ \E n \in NumPlayersArgs, s \in Seeds : StartRun(n, s)
    \/ NextBracket
    \/ PairLoopEnd
    \/ PairSkip
    \/ PairMake
    \/ PairBreak
    \/ PairLeftovers
    \/ PlayBye
    \/ PlayMatch
    \/ NextRound
    \/ Cutoff
    \/ Finalize

Spec == Init /\ [][Next]_vars

\* a step of a run_tournament call that has begun
RunStep ==
    \/ NextBracket
    \/ PairLoopEnd
    \/ PairSkip
    \/ PairMake
    \/ PairBreak
    \/ PairLeftovers
    \/ PlayBye
    \/ PlayMatch
    \/ NextRound
    \/ Cutoff
    \/ Finalize

\* a call of run_tournament has begun and not returned: RunStep is enabled
Running == pc \in { "bracket", "pair", "play" }

\* run_tournament is sequential code: once called it keeps taking its next
\* step.  This is WF_vars(RunStep) with ENABLED << RunStep >>_vars written
\* out as Running.
SpecLive == Init /\ [][Next]_vars /\ ([]<>(~Running) \/ []<><< RunStep >>_vars)

\* run_tournament is called again on the same simulator, for the same
\* num_players and within the same second of the clock, so with the same seed;
\* self.tournament_result still holds the result of the run before
RunAgain ==
    /\ pc = "done"
    /\ seed' = seed
    /\ rng' = SeedState(seed)
    /\ df' = load_players(Len(df))
    /\ round_num' = 1
    /\ BeginPairing(df')
    /\ UNCHANGED << ledgerVars, experiment, call, ret, tournament_result >>

\* repeated runs, on populations of at most RepeatPlayers
NextRepeat ==
    \/ \E n \in 1..RepeatPlayers, s \in Seeds : StartRun(n, s)
    \/ RunAgain
    \/ NextBracket
    \/ PairLoopEnd
    \/ PairSkip
    \/ PairMake
    \/ PairBreak
    \/ PairLeftovers
    \/ PlayBye
    \/ PlayMatch
    \/ NextRound
    \/ Cutoff
    \/ Finalize

SpecRepeat == Init /\ [][NextRepeat]_vars

\* ---- the end of run_tournament with its two guarded calls ----

\* the result dict: of 'players_df' the final placement of every row, of
\* 'final_standings' the ids in order
ResultOf(d) ==
    [final_standings |-> [n \in DOMAIN FinalRows(d) |-> d[FinalRows(d)[n]].player_id],
     placements |-> [x \in DOMAIN d |-> d[x].final_placement],
     seed |-> seed]

\* round 13 is over: the final placements are written into the DataFrame
AssignFinal ==
    /\ pc = "play"
    /\ k > Len(pairings)
    /\ round_num = LastDay2Round
    /\ df' = AssignPlacements(df)
    /\ pc' = "ledger"
    /\ UNCHANGED << ledgerVars, experiment, call, ret, seed, rng, round_num, pairings, paired,
                    point_totals, bracket_list, i, k, tournament_result >>

\* na_manager.process_tournament_results(df) returns
LedgerProcessed ==
    /\ pc = "ledger"
    /\ track_na_standings
    /\ \E r \in { ProcessRows([st |-> na_standings, ret |-> ret, call |-> call], df, 1) } :
          /\ na_standings' = r.st
          /\ ret' = r.ret
          /\ call' = r.call
    /\ pc' = "save"
    /\ UNCHANGED << na_lookup, points_table, track_na_standings, experiment, seed, rng, df,
                    round_num, pairings, paired, point_totals, bracket_list, i, k,
                    tournament_result >>

\* the exception of process_tournament_results leaves run_tournament
LedgerRaised_Propagates(n) ==
    /\ pc = "ledger"
    /\ track_na_standings
    /\ n \in DOMAIN df
    /\ \E r \in { ProcessRows([st |-> na_standings, ret |-> ret, call |-> call],
                               SubSeq(df, 1, n - 1), 1) } :
          /\ na_standings' = r.st
          /\ ret' = r.ret
    /\ call' = [op |-> "process_tournament_results", raised_at |-> n]
    /\ pc' = "raised"
    /\ UNCHANGED << na_lookup, points_table, track_na_standings, experiment, seed, rng, df,
                    round_num, pairings, paired, point_totals, bracket_list, i, k,
                    tournament_result >>

\* na_manager.process_tournament_results(df) raises an Exception while it
\* processes row n, the rows before it being processed; `except Exception`
\* catches it and run_tournament goes on
LedgerRaised(n) ==
    /\ pc = "ledger"
    /\ track_na_standings
    /\ n \in DOMAIN df
    /\ \E r \in { ProcessRows([st |-> na_standings, ret |-> ret, call |-> call],
                               SubSeq(df, 1, n - 1), 1) } :
          /\ na_standings' = r.st
          /\ ret' = r.ret
    /\ call' = [op |-> "process_tournament_results", raised_at |-> n]
    /\ pc' = "save"
    /\ UNCHANGED << na_lookup, points_table, track_na_standings, experiment, seed, rng, df,
                    round_num, pairings, paired, point_totals, bracket_list, i, k,
                    tournament_result >>

\* save_results is False: nothing is saved, the result is stored and returned
SaveSkipped ==
    /\ pc = "save"
    /\ tournament_result' = Some(ResultOf(df))
    /\ pc' = "done"
    /\ UNCHANGED << ledgerVars, experiment, call, ret, seed, rng, df, round_num, pairings,
                    paired, point_totals, bracket_list, i, k >>

\* save_results is True: PlayerDatabase has no save_tournament_results, the call
\* raises AttributeError, `except Exception` catches it, and the result is
\* stored and returned
SaveRaised ==
    /\ pc = "save"
    /\ call' = [op |-> "save_tournament_results", raised |-> TRUE]
    /\ tournament_result' = Some(ResultOf(df))
    /\ pc' = "done"
    /\ UNCHANGED << ledgerVars, experiment, ret, seed, rng, df, round_num, pairings,
                    paired, point_totals, bracket_list, i, k >>

NextGuarded ==
    \/ \E n \in NumPlayersArgs, s \in Seeds : StartRun(n, s)
    \/ NextBracket
    \/ PairLoopEnd
    \/ PairSkip
    \/ PairMake
    \/ PairBreak
    \/ PairLeftovers
    \/ PlayBye
    \/ PlayMatch
    \/ NextRound
    \/ Cutoff
    \/ AssignFinal
    \/ LedgerProcessed
    \/ \E n \in 1..NumPlayers : LedgerRaised(n)
    \/ SaveSkipped
    \/ SaveRaised

SpecGuarded == Init /\ [][NextGuarded]_vars

-----------------------------------------------------------------------------
(* TournamentSimulator.track_140th_place_experiment *)

\* the experiment needs a ledger of 140 rows: it reads the row ranked 140th
StandingsCutoff == 140

\* ledger rows of players who enter no tournament
PadName(r) == << "z" >> \o IntToStr(r)
PadRow(r) ==
    [NA_Name |-> PadName(r), Top_X_Name |-> PadName(r), CP_Finishes |-> << >>,
     Top_X_CP |-> 0, Locals_CP |-> r, Total_CP |-> r]

\* the base ledger filled up to 140 rows
LongLedger == BaseLedger \o [r \in 1..(StandingsCutoff - NumRows) |-> PadRow(r)]

\* sort_values('Total_CP', ascending=False).iloc[n - 1]['Total_CP']
RankedTotal(st, n) ==
    CHOOSE v \in { st[r].Total_CP : r \in DOMAIN st } :
        /\ Cardinality({ r \in DOMAIN st : st[r].Total_CP > v }) < n
        /\ Cardinality({ r \in DOMAIN st : st[r].Total_CP >= v }) >= n

\* the assignment without its right-hand side: the ledger stays as the last
\* run left it
ResetLedger_Keeps(initial_standings, current) == current

\* self.na_manager.na_standings = initial_standings.copy()
ResetLedger(initial_standings, current) == initial_standings

\* a simulator whose ledger is too short for the experiment, or long enough
InitExperiment ==
    /\ na_standings \in { BaseLedger, LongLedger }
    /\ na_lookup = BuildLookup(na_standings)
    /\ points_table = << >>
    /\ track_na_standings = TRUE
    /\ call = NoCall
    /\ ret = FALSE
    /\ RunIdle

\* the call up to its loop: the snapshot, and the early return on a short
\* ledger (tracking is on in every state of the model)
TrackExperiment(num_simulations, tournament_size) ==
    /\ pc = "idle"
    /\ experiment = NoExperiment
    /\ track_na_standings
    /\ experiment' =
          [pc |-> IF Len(na_standings) < StandingsCutoff THEN "returned" ELSE "loop",
           num_simulations |-> num_simulations,
           tournament_size |-> tournament_size,
           initial_standings |-> na_standings,
           sim_num |-> 1,
           place_140_totals |-> << >>]
    /\ UNCHANGED << ledgerVars, call, ret, runVars >>

\* an iteration up to the first round of its tournament: the ledger is reset
\* and run_tournament(num_players=tournament_size) begins
ExperimentRun(s) ==
    /\ experiment.pc = "loop"
    /\ experiment.sim_num <= experiment.num_simulations
    /\ na_standings' = ResetLedger(experiment.initial_standings, na_standings)
    /\ seed' = s
    /\ rng' = SeedState(s)
    /\ df' = load_players(experiment.tournament_size)
    /\ round_num' = 1
    /\ BeginPairing(df')
    /\ experiment' = [experiment EXCEPT !.pc = "run"]
    /\ UNCHANGED << na_lookup, points_table, track_na_standings, call, ret, tournament_result >>

\* run_tournament has returned: the total ranked 140th is recorded, then the
\* winner is read from final_standings.iloc[0], which raises IndexError when
\* nobody reached Day 2
ExperimentAfterRun ==
    /\ experiment.pc = "run"
    /\ pc = "done"
    /\ experiment' =
          [experiment EXCEPT
              !.place_140_totals = Append(@, RankedTotal(na_standings, StandingsCutoff)),
              !.pc = IF tournament_result.v.final_standings = << >> THEN "raised" ELSE "loop",
              !.sim_num = IF tournament_result.v.final_standings = << >> THEN @ ELSE @ + 1]
    /\ UNCHANGED << ledgerVars, call, ret, runVars >>

\* the loop is over: the ledger is restored and the experiment returns
ExperimentReturn ==
    /\ experiment.pc = "loop"
    /\ experiment.sim_num > experiment.num_simulations
    /\ na_standings' = ResetLedger(experiment.initial_standings, na_standings)
    /\ experiment' = [experiment EXCEPT !.pc = "returned"]
    /\ UNCHANGED << na_lookup, points_table, track_na_standings, call, ret, runVars >>

NextExperiment ==
    \/ \E n \in 1..MaxSimulations, size \in 1..RepeatPlayers : TrackExperiment(n, size)
    \/ \E s \in Seeds : ExperimentRun(s)
    \/ ExperimentAfterRun
    \/ ExperimentReturn
    \/ NextBracket
    \/ PairLoopEnd
    \/ PairSkip
    \/ PairMake
    \/ PairBreak
    \/ PairLeftovers
    \/ PlayBye
    \/ PlayMatch
    \/ NextRound
    \/ Cutoff
    \/ Finalize

SpecExperiment == InitExperiment /\ [][NextExperiment]_vars

-----------------------------------------------------------------------------
(* TournamentSimulator.run_multi_event_simulation *)

\* the list built from `final` for the ledger: name and rank i of every Day-2
\* participant, in the order of the final standings
EventResults(d) ==
    [n \in DOMAIN FinalRows(d) |->
        [player_name |-> d[FinalRows(d)[n]].name, final_placement |-> n]]

\* the names process_tournament_results calls update_player_finishes with:
\* those is_na_player accepts and whose placement has truthy points
UpdateCalls(results) ==
    LET made == SelectSeq(results, LAMBDA e : /\ is_na_player(e.player_name)
                                              /\ Truthy(get_championship_points(e.final_placement)))
    IN  [n \in DOMAIN made |-> made[n].player_name]

\* the call up to its loop
MultiEvent(num_events, players_per_event) ==
    /\ pc = "idle"
    /\ experiment = NoExperiment
    /\ experiment' = [pc |-> "events", num_events |-> num_events,
                      players_per_event |-> players_per_event,
                      event_num |-> 1, update_calls |-> << >>]
    /\ UNCHANGED << ledgerVars, call, ret, runVars >>

\* an event up to the first round of its tournament:
\* run_tournament(tournament_size, save_results=True) begins
EventRun(s) ==
    /\ experiment.pc = "events"
    /\ experiment.event_num <= experiment.num_events
    /\ seed' = s
    /\ rng' = SeedState(s)
    /\ df' = load_players(experiment.players_per_event)
    /\ round_num' = 1
    /\ BeginPairing(df')
    /\ experiment' = [experiment EXCEPT !.pc = "event", !.update_calls = << >>]
    /\ UNCHANGED << ledgerVars, call, ret, tournament_result >>

\* run_tournament has returned, having processed the DataFrame when tracking
\* is on: the list of the Day-2 participants is processed by the ledger, then
\* the champion is read from final.iloc[0], which raises IndexError when
\* nobody reached Day 2.  update_calls keeps the names update_player_finishes
\* was called with for this event, by run_tournament and then by this step.
EventAfterRun ==
    /\ experiment.pc = "event"
    /\ pc = "done"
    /\ IF track_na_standings
       THEN /\ \E r \in { ProcessList([st |-> na_standings, ret |-> ret, call |-> call],
                                       EventResults(df), 1) } :
                   /\ na_standings' = r.st
                   /\ ret' = r.ret
                   /\ call' = r.call
            /\ experiment' =
                  [experiment EXCEPT
                      !.update_calls =
                          UpdateCalls([x \in DOMAIN df |->
                                          [player_name |-> df[x].name,
                                           final_placement |-> df[x].final_placement]])
                          \o UpdateCalls(EventResults(df)),
                      !.pc = IF FinalRows(df) = << >> THEN "events_raised" ELSE "events",
                      !.event_num = IF FinalRows(df) = << >> THEN @ ELSE @ + 1]
       ELSE /\ UNCHANGED << na_standings, ret, call >>
            /\ experiment' =
                  [experiment EXCEPT
                      !.pc = IF FinalRows(df) = << >> THEN "events_raised" ELSE "events",
                      !.event_num = IF FinalRows(df) = << >> THEN @ ELSE @ + 1]
    /\ UNCHANGED << na_lookup, points_table, track_na_standings, runVars >>

\* the loop is over: the results are aggregated and the call returns
EventsReturn ==
    /\ experiment.pc = "events"
    /\ experiment.event_num > experiment.num_events
    /\ experiment' = [experiment EXCEPT !.pc = "events_returned"]
    /\ UNCHANGED << ledgerVars, call, ret, runVars >>

NextEvents ==
    \/ \E n \in 1..MaxSimulations, size \in 1..RepeatPlayers : MultiEvent(n, size)
    \/ \E s \in Seeds : EventRun(s)
    \/ EventAfterRun
    \/ EventsReturn
    \/ NextBracket
    \/ PairLoopEnd
    \/ PairSkip
    \/ PairMake
    \/ PairBreak
    \/ PairLeftovers
    \/ PlayBye
    \/ PlayMatch
    \/ NextRound
    \/ Cutoff
    \/ Finalize

SpecEvents == Init /\ [][NextEvents]_vars

-----------------------------------------------------------------------------
(* NotebookTournamentIntegration: the tournament over the player database *)

NotebookPlayers == 3
MaxDayRounds == 2

\* the DataFrame load_players_for_tournament builds: one row per player of the
\* database, nothing played
load_players_for_tournament(num_players) ==
    [x \in 1..num_players |->
        [player_id |-> x, match_points |-> 0, wins |-> 0, losses |-> 0, ties |-> 0,
         opponents_played |-> {}, received_bye |-> FALSE, is_active |-> TRUE]]

\* the index of the row with this player_id
NotebookIdx(players_df, player_id) ==
    CHOOSE idx \in DOMAIN players_df : players_df[idx].player_id = player_id

\* opponent is the set holding opponent_id, empty when it is None
update_player_stats_enhanced(players_df, player_id, match_points, wins, losses, ties, opponent, received_bye) ==
    LET idx == NotebookIdx(players_df, player_id)
    IN  [players_df EXCEPT
            ![idx].match_points = @ + match_points,
            ![idx].wins = @ + wins,
            ![idx].losses = @ + losses,
            ![idx].ties = @ + ties,
            ![idx].opponents_played = @ \cup opponent,
            ![idx].received_bye = IF received_bye THEN TRUE ELSE @]

\* the ids of the active rows by match points (descending), then player_id
NotebookPlayerList(players_df) ==
    LET active == { x \in DOMAIN players_df : players_df[x].is_active }
        Before(y, x) == \/ players_df[y].match_points > players_df[x].match_points
                        \/ /\ players_df[y].match_points = players_df[x].match_points
                           /\ players_df[y].player_id < players_df[x].player_id
        Rank(x) == 1 + Cardinality({ y \in active : Before(y, x) })
    IN  [n \in 1..Cardinality(active) |->
            players_df[CHOOSE x \in active : Rank(x) = n].player_id]

RECURSIVE NotebookPairFrom(_, _, _, _, _)
NotebookPairFrom(players_df, player_list, at, made, paired_players) ==
    IF at > Len(player_list) THEN made
    ELSE IF player_list[at] \in paired_players
    THEN NotebookPairFrom(players_df, player_list, at + 1, made, paired_players)
    ELSE LET player1_id == player_list[at]
             player1_opponents ==
                 players_df[NotebookIdx(players_df, player1_id)].opponents_played
             later == { j \in (at + 1)..Len(player_list) : player_list[j] \notin paired_players }
             fresh == { j \in later : player_list[j] \notin player1_opponents }
             player2_id == IF fresh # {} THEN player_list[MinOf(fresh)]
                           ELSE IF later # {} THEN player_list[MinOf(later)]
                           ELSE BYE
         IN  NotebookPairFrom(players_df, player_list, at + 1,
                              Append(made, << player1_id, player2_id >>),
                              paired_players \cup ({ player1_id, player2_id } \ { BYE }))

pair_round_notebook_style(players_df) ==
    NotebookPairFrom(players_df, NotebookPlayerList(players_df), 1, << >>, {})

\* the loop of simulate_round_enhanced over its pairings; outcomes[n] is what
\* simulate_match_with_skill returns for the n-th pairing
RECURSIVE NotebookPlay(_, _, _, _)
NotebookPlay(players_df, made, outcomes, n) ==
    IF n > Len(made) THEN players_df
    ELSE LET player1_id == made[n][1]
             player2_id == made[n][2]
             after ==
                 IF player2_id = BYE
                 THEN update_player_stats_enhanced(players_df, player1_id, 3, 1, 0, 0, {}, TRUE)
                 ELSE IF outcomes[n] = "player1_wins"
                 THEN update_player_stats_enhanced(
                          update_player_stats_enhanced(players_df, player1_id, 3, 1, 0, 0,
                                                       { player2_id }, FALSE),
                          player2_id, 0, 0, 1, 0, { player1_id }, FALSE)
                 ELSE IF outcomes[n] = "player2_wins"
                 THEN update_player_stats_enhanced(
                          update_player_stats_enhanced(players_df, player1_id, 0, 0, 1, 0,
                                                       { player2_id }, FALSE),
                          player2_id, 3, 1, 0, 0, { player1_id }, FALSE)
                 ELSE update_player_stats_enhanced(
                          update_player_stats_enhanced(players_df, player1_id, 1, 0, 0, 1,
                                                       { player2_id }, FALSE),
                          player2_id, 1, 0, 0, 1, { player1_id }, FALSE)
         IN  NotebookPlay(after, made, outcomes, n + 1)

simulate_round_enhanced(players_df, outcomes) ==
    NotebookPlay(players_df, pair_round_notebook_style(players_df), outcomes, 1)

\* the rows of advancing_players
Advancing_All(players_df, points_to_advance) ==
    DOMAIN players_df

Advancing(players_df, points_to_advance) ==
    { x \in DOMAIN players_df : players_df[x].match_points >= points_to_advance }

\* the active rows by match points, then wins, both descending; equal rows
\* stay in the order of the DataFrame
NotebookFinalStandings(players_df) ==
    LET active == { x \in DOMAIN players_df : players_df[x].is_active }
        Before(y, x) == \/ players_df[y].match_points > players_df[x].match_points
                        \/ /\ players_df[y].match_points = players_df[x].match_points
                           /\ players_df[y].wins > players_df[x].wins
                        \/ /\ players_df[y].match_points = players_df[x].match_points
                           /\ players_df[y].wins = players_df[x].wins
                           /\ y < x
        Rank(x) == 1 + Cardinality({ y \in active : Before(y, x) })
    IN  [n \in 1..Cardinality(active) |-> players_df[CHOOSE x \in active : Rank(x) = n]]

\* the tournament record update_tournament_stats sets for a row
NotebookRecord(row) ==
    [match_points |-> row.match_points, wins |-> row.wins, losses |-> row.losses,
     ties |-> row.ties, opponents_played |-> row.opponents_played,
     received_bye |-> row.received_bye, is_active |-> row.is_active]

\* db maps the player ids of the database to their record of this tournament;
\* rows whose player load_player does not find are skipped
update_database_with_results(db, players_df) ==
    [id \in DOMAIN db |->
        IF \E x \in DOMAIN players_df : players_df[x].player_id = id
        THEN Some(NotebookRecord(players_df[NotebookIdx(players_df, id)]))
        ELSE db[id]]

\* the outcomes drawn for the pairings of one round: with the default tie rate
\* and the win probability clamped to [0.15, 0.85], the draw of random.random()
\* in skill_based_match_simulation can give each of the three
NotebookDraws(players_df) ==
    [1..Len(pair_round_notebook_style(players_df)) -> { "player1_wins", "player2_wins", "tie" }]

\* the call up to the Day 1 loop; rounds logs the round numbers
\* simulate_round_enhanced was called with, db_updates the calls of
\* update_database_with_results
SimulateFullTournament(num_players, day1_rounds, day2_rounds, points_to_advance) ==
    /\ pc = "idle"
    /\ experiment = NoExperiment
    /\ experiment' = [pc |-> "day1",
                      players_df |-> load_players_for_tournament(num_players),
                      day1_rounds |-> day1_rounds, day2_rounds |-> day2_rounds,
                      points_to_advance |-> points_to_advance,
                      round_num |-> 1, rounds |-> << >>,
                      db |-> [id \in 1..num_players |-> None], db_updates |-> 0,
                      result |-> None]
    /\ UNCHANGED << ledgerVars, call, ret, runVars >>

\* one pass of the Day 1 loop
NotebookDay1Round ==
    /\ experiment.pc = "day1"
    /\ experiment.round_num <= experiment.day1_rounds
    /\ \E outcomes \in NotebookDraws(experiment.players_df) :
          experiment' = [experiment EXCEPT
                            !.players_df = simulate_round_enhanced(@, outcomes),
                            !.rounds = Append(@, experiment.round_num),
                            !.round_num = @ + 1]
    /\ UNCHANGED << ledgerVars, call, ret, runVars >>

\* the Day 1 cut: the rows below points_to_advance become inactive, and the
\* call returns the error result when no row advances
NotebookCut ==
    /\ experiment.pc = "day1"
    /\ experiment.round_num > experiment.day1_rounds
    /\ LET advancing_players == Advancing(experiment.players_df, experiment.points_to_advance)
           marked == [x \in DOMAIN experiment.players_df |->
                         IF experiment.players_df[x].match_points < experiment.points_to_advance
                         THEN [experiment.players_df[x] EXCEPT !.is_active = FALSE]
                         ELSE experiment.players_df[x]]
       IN  experiment' =
              IF advancing_players = {}
              THEN [experiment EXCEPT !.players_df = marked,
                                      !.result = Some([error |-> "No advancement to Day 2"]),
                                      !.pc = "returned"]
              ELSE [experiment EXCEPT !.players_df = marked, !.pc = "day2"]
    /\ UNCHANGED << ledgerVars, call, ret, runVars >>

\* one pass of the Day 2 loop
NotebookDay2Round ==
    /\ experiment.pc = "day2"
    /\ experiment.round_num <= experiment.day1_rounds + experiment.day2_rounds
    /\ \E outcomes \in NotebookDraws(experiment.players_df) :
          experiment' = [experiment EXCEPT
                            !.players_df = simulate_round_enhanced(@, outcomes),
                            !.rounds = Append(@, experiment.round_num),
                            !.round_num = @ + 1]
    /\ UNCHANGED << ledgerVars, call, ret, runVars >>

\* the final standings, the champion from their first row, the update of the
\* database and the result
NotebookFinish ==
    /\ experiment.pc = "day2"
    /\ experiment.round_num > experiment.day1_rounds + experiment.day2_rounds
    /\ LET final_standings == NotebookFinalStandings(experiment.players_df)
       IN  experiment' =
              IF final_standings = << >>
              THEN [experiment EXCEPT !.pc = "raised"]
              ELSE [experiment EXCEPT
                       !.db = update_database_with_results(@, experiment.players_df),
                       !.db_updates = @ + 1,
                       !.result = Some([final_standings |-> final_standings,
                                        day1_advancement |->
                                            Cardinality(Advancing(experiment.players_df,
                                                                  experiment.points_to_advance)),
                                        champion |-> final_standings[1],
                                        total_players |-> Len(experiment.players_df)]),
                       !.pc = "returned"]
    /\ UNCHANGED << ledgerVars, call, ret, runVars >>

NextNotebook ==
    \/ \E num_players \in 1..NotebookPlayers, day1_rounds \in 1..MaxDayRounds,
          day2_rounds \in 1..MaxDayRounds, points_to_advance \in { 1, 3, 4, 7 } :
          SimulateFullTournament(num_players, day1_rounds, day2_rounds, points_to_advance)
    \/ NotebookDay1Round
    \/ NotebookCut
    \/ NotebookDay2Round
    \/ NotebookFinish

SpecNotebook == Init /\ [][NextNotebook]_vars

-----------------------------------------------------------------------------
(* Properties of generate_swiss_pairings *)

\* ids of the active and of the inactive participants
ActiveIds == { df[x].player_id : x \in ActiveRows(df) }
InactiveIds == { df[x].player_id : x \in DOMAIN df \ ActiveRows(df) }

\* the places (pairing, side) at which an id occurs in the pairing list
PlacesOf(id) == { << n, side >> \in (DOMAIN pairings) \X {1, 2} : pairings[n][side] = id }

ByePairings == { n \in DOMAIN pairings : pairings[n][2] = BYE }

\* C1: in every round, once generate_swiss_pairings has returned, there are
\* exactly ceil(N/2) pairings for the N active participants, every active
\* participant occurs in exactly one place of the list, and no inactive
\* participant occurs in it.
C1_PairingsCoverActive ==
    pc = "play" =>
        /\ 2 * Len(pairings) \in { Cardinality(ActiveIds), Cardinality(ActiveIds) + 1 }
        /\ \A id \in ActiveIds : Cardinality(PlacesOf(id)) = 1
        /\ \A id \in InactiveIds : PlacesOf(id) = {}

\* a Day-2 round whose pairings are made for two or more active participants
\* while others are inactive
C1_Witness ==
    /\ pc = "play"
    /\ round_num > 9
    /\ Cardinality(ActiveIds) >= 2
    /\ InactiveIds # {}
    /\ pairings # << >>

\* the opponents a participant has played
PlayedBy(id) == df[IdxOf(df, id)].opponents_played
PointsOf(id) == df[IdxOf(df, id)].match_points

\* the pairing added by this step is a rematch although the bracket of its
\* first participant held, when the step was taken, another unpaired
\* participant that participant had not played
AvoidableRematch(n) ==
    LET a == pairings'[n][1]
        b == pairings'[n][2]
    IN  /\ b # BYE
        /\ b \in PlayedBy(a)
        /\ \E c \in ActiveIds \ (paired \cup {a, b}) :
              PointsOf(c) = PointsOf(a) /\ c \notin PlayedBy(a)

\* C2: whenever generate_swiss_pairings pairs two prior opponents, no other
\* unpaired participant of the processed participant's point bracket was a
\* non-prior-opponent when the pairing was made.
C2_RematchOnlyWithoutAlternative ==
    [][ \A n \in DOMAIN pairings' :
            n > Len(pairings) => ~AvoidableRematch(n) ]_vars

\* a rematch has just been made inside a bracket of three or more
C2_Witness ==
    /\ pc = "pair"
    /\ Len(bracket_list) >= 3
    /\ pairings # << >>
    /\ LET last == pairings[Len(pairings)]
       IN  /\ last[1] \in Range(bracket_list)
           /\ last[2] \in Range(bracket_list)
           /\ last[2] \in PlayedBy(last[1])

\* C3: a round has at most one bye pairing, only when the number of active
\* participants is odd, and the participant given the bye is in no other pairing.
C3_AtMostOneByeOnlyWhenOdd ==
    pc = "play" =>
        /\ Cardinality(ByePairings) <= 1
        /\ ByePairings # {} => Cardinality(ActiveIds) % 2 = 1
        /\ \A n \in ByePairings : PlacesOf(pairings[n][1]) = { << n, 1 >> }

\* a round of three or more active participants with a bye
C3_Witness ==
    /\ pc = "play"
    /\ Cardinality(ActiveIds) >= 3
    /\ ByePairings # {}

-----------------------------------------------------------------------------
(* Properties of run_tournament *)

\* C4: when run_tournament has finished, the final placements of its N
\* participants are exactly 1..N, one each.
C4_PlacementsArePermutation ==
    pc = "done" =>
        /\ { df[x].final_placement : x \in DOMAIN df } = 1..Len(df)
        /\ \A x, y \in DOMAIN df : df[x].final_placement = df[y].final_placement => x = y

\* a finished run with Day-2 and eliminated participants, two of them tied on
\* match points and wins
C4_Witness ==
    /\ pc = "done"
    /\ ActiveIds # {}
    /\ InactiveIds # {}
    /\ \E x, y \in DOMAIN df :
          /\ x # y
          /\ df[x].match_points = df[y].match_points
          /\ df[x].wins = df[y].wins

\* the step that ends round 9
IsCutoffStep == pc = "play" /\ k > Len(pairings) /\ round_num = 9 /\ round_num' = 10

\* C10: after round 9 exactly the participants with fewer than 19 match points
\* are marked inactive, an inactive participant never becomes active again, and
\* no participant is deactivated at any other point of the run.
C10_CutoffOnceAndIrreversible ==
    [][ \A x \in DOMAIN df \cap DOMAIN df' :
            /\ ~df[x].is_active => ~df'[x].is_active
            /\ (df[x].is_active /\ ~df'[x].is_active) => IsCutoffStep
            /\ IsCutoffStep => (df'[x].is_active <=> df[x].match_points >= 19) ]_vars

\* round 10 begins with some participants eliminated and some not
C10_Witness ==
    /\ pc = "bracket"
    /\ round_num = 10
    /\ ActiveIds # {}
    /\ \E x \in DOMAIN df : ~df[x].is_active /\ df[x].match_points < 19
    /\ \A x \in DOMAIN df : df[x].is_active <=> df[x].match_points >= 19

\* C11: when no participant holds 19 match points once round 9 is over,
\* run_tournament enters no Day-2 round and its result is an explicit empty
\* result, not a result record.
C11_NoAdvancersNoDayTwo ==
    (df # << >> /\ \A x \in DOMAIN df : df[x].match_points < AdvancePoints) =>
        /\ round_num <= LastDay1Round
        /\ pc = "done" => tournament_result = None

\* C12: a run of run_tournament that ends on the population and with the seed
\* of the run before it gives every participant the final placement that run
\* gave it.
C12_SameSeedSamePlacements ==
    [][ ( /\ pc = "play"
          /\ pc' = "done"
          /\ tournament_result # None
          /\ tournament_result.v.seed = seed
          /\ Len(tournament_result.v.placements) = Len(df) )
        => tournament_result'.v.placements = tournament_result.v.placements ]_vars

\* the (match points, wins) pair of row x is not lexicographically smaller
\* than that of row y
KeyNotSmaller(x, y) ==
    \/ df[x].match_points > df[y].match_points
    \/ df[x].match_points = df[y].match_points /\ df[x].wins >= df[y].wins

\* C13: when run_tournament has finished, the M active participants hold the
\* placements 1..M and the inactive ones M+1..N; within each group a better
\* placement never goes with a smaller (match points, wins) pair, and every
\* active participant is placed ahead of every inactive one.
C13_PlacementsFollowStandings ==
    pc = "done" =>
        /\ { df[x].final_placement : x \in { y \in DOMAIN df : df[y].is_active } }
              = 1..Cardinality({ y \in DOMAIN df : df[y].is_active })
        /\ \A x, y \in DOMAIN df :
              /\ (df[x].is_active /\ ~df[y].is_active) =>
                    df[x].final_placement < df[y].final_placement
              /\ ( /\ df[x].is_active = df[y].is_active
                    /\ df[x].final_placement < df[y].final_placement ) => KeyNotSmaller(x, y)

\* a finished run with a Day-2 participant and two eliminated participants
\* that differ in match points and in wins
C13_Witness ==
    /\ pc = "done"
    /\ \E x \in DOMAIN df : df[x].is_active
    /\ \E x, y \in DOMAIN df :
          /\ ~df[x].is_active /\ ~df[y].is_active
          /\ df[x].match_points > df[y].match_points
          /\ df[x].wins # df[y].wins
          /\ df[x].final_placement < df[y].final_placement

\* rows x and y are tied: same group, same match points, same wins
Tied(x, y) ==
    /\ df[x].is_active = df[y].is_active
    /\ df[x].match_points = df[y].match_points
    /\ df[x].wins = df[y].wins

\* row y is placed ahead of row x by the standings and the load order alone
AheadOf(y, x) ==
    \/ df[y].is_active /\ ~df[x].is_active
    \/ /\ df[y].is_active = df[x].is_active
       /\ \/ df[y].match_points > df[x].match_points
          \/ df[y].match_points = df[x].match_points /\ df[y].wins > df[x].wins
          \/ Tied(x, y) /\ y < x

UnpairedAt(points) ==
    { df[x].player_id : x \in { y \in DOMAIN df : /\ df[y].is_active
                                                  /\ df[y].match_points = points
                                                  /\ df[y].player_id \notin paired } }

\* the point totals of the active participants
ActivePoints == { df[x].match_points : x \in { y \in DOMAIN df : df[y].is_active } }

\* generate_swiss_pairings is between its entry and its final pass
InBrackets == pc \in { "bracket", "pair" }

\* C28: generate_swiss_pairings goes through the point brackets from the
\* highest total to the lowest; every pairing made while a bracket is processed
\* joins two participants with equal match points; a bracket that has been
\* processed leaves at most one participant unpaired; and pairings across
\* different point totals are made only in the final pass, between the
\* participants the brackets left over.
C28_BracketsThenLeftovers ==
    /\ [](InBrackets =>
            /\ \A a, b \in DOMAIN point_totals : a < b => point_totals[a] > point_totals[b]
            /\ \A points \in ActivePoints :
                  \/ \E a \in DOMAIN point_totals : point_totals[a] = points
                  \/ pc = "pair" /\ \A b \in DOMAIN bracket_list : PointsOf(bracket_list[b]) = points
                  \/ Cardinality(UnpairedAt(points)) <= 1
            /\ pc = "pair" =>
                  \A b \in DOMAIN bracket_list, a \in DOMAIN point_totals :
                      PointsOf(bracket_list[b]) > point_totals[a]
            /\ \A n \in DOMAIN pairings :
                  /\ pairings[n][2] # BYE
                  /\ PointsOf(pairings[n][1]) = PointsOf(pairings[n][2]))
    /\ [][ (InBrackets /\ pc' = "play") =>
              /\ SubSeq(pairings', 1, Len(pairings)) = pairings
              /\ \A n \in (Len(pairings) + 1)..Len(pairings') :
                    /\ pairings'[n][1] \notin paired
                    /\ pairings'[n][2] # BYE =>
                          /\ pairings'[n][2] \notin paired
                          /\ PointsOf(pairings'[n][1]) # PointsOf(pairings'[n][2]) ]_vars

\* the pairings of a round hold a pairing made inside a bracket and, after it,
\* a pairing of two leftovers with different match points
C28_Witness ==
    /\ pc = "play"
    /\ k = 1
    /\ Len(pairings) = 2
    /\ pairings[1][2] # BYE
    /\ pairings[2][2] # BYE
    /\ PointsOf(pairings[1][1]) = PointsOf(pairings[1][2])
    /\ PointsOf(pairings[2][1]) # PointsOf(pairings[2][2])

\* the positions after i of the bracket whose participant is not yet paired
LaterUnpaired == { j \in (i + 1)..Len(bracket_list) : bracket_list[j] \notin paired }

\* the while loop is at a participant that is not paired, every unpaired
\* participant after it in the bracket has played it, and there is one
OnlyRematchesLeft ==
    /\ pc = "pair"
    /\ i <= Len(bracket_list)
    /\ bracket_list[i] \notin paired
    /\ LaterUnpaired # {}
    /\ \A j \in LaterUnpaired : bracket_list[j] \in PlayedBy(bracket_list[i])

\* C29: when no unpaired participant later in the shuffled bracket is a
\* non-prior-opponent of the processed participant but some unpaired participant
\* is, the next step pairs the participant with the first of them, a rematch
\* inside the bracket; the participant is not left for the final pass, whether
\* or not another bracket holds an opponent it never played.
C29_RematchInsideBracket ==
    [][ OnlyRematchesLeft =>
          \E j \in LaterUnpaired :
             /\ \A other \in LaterUnpaired : j <= other
             /\ pairings' = Append(pairings, << bracket_list[i], bracket_list[j] >>)
             /\ paired' = paired \cup { bracket_list[i], bracket_list[j] }
             /\ pc' = "pair" ]_vars

\* a rematch has just been made inside a bracket while an unpaired participant
\* of another bracket had never played the processed participant
C29_Witness ==
    /\ pc = "pair"
    /\ pairings # << >>
    /\ LET last == pairings[Len(pairings)]
       IN  /\ last[1] \in Range(bracket_list)
           /\ last[2] \in Range(bracket_list)
           /\ last[2] \in PlayedBy(last[1])
           /\ \E c \in ActiveIds \ paired :
                 /\ PointsOf(c) # PointsOf(last[1])
                 /\ c \notin PlayedBy(last[1])

\* run_tournament is at its guarded calls: the ledger update, then the save
AtGuardedCalls == pc \in { "ledger", "save" }

\* C21: run_tournament returns the result it computed in memory whenever the
\* ledger update raises or the save to the store raises: neither exception
\* leaves run_tournament, the DataFrame keeps the placements computed before
\* the two calls, and the result returned holds exactly those placements.
C21_FailuresAreNotFatal ==
    [][ /\ pc = "ledger" => (pc' = "save" /\ df' = df /\ tournament_result' = tournament_result)
        /\ pc = "save" =>
              /\ pc' = "done"
              /\ df' = df
              /\ ~tournament_result'.none
              /\ tournament_result'.v.placements = [x \in DOMAIN df |-> df[x].final_placement]
              /\ Len(tournament_result'.v.final_standings) =
                    Cardinality({ x \in DOMAIN df : df[x].is_active })
              /\ \A n \in DOMAIN tournament_result'.v.final_standings :
                    df[IdxOf(df, tournament_result'.v.final_standings[n])].final_placement = n
      ]_vars

\* run_tournament has returned its result after the save raised and after the
\* ledger update raised part-way: the ledger lacks awards a full update gives
C21_Witness ==
    /\ pc = "done"
    /\ ~tournament_result.none
    /\ call.op = "save_tournament_results"
    /\ call.raised
    /\ tournament_result.v.final_standings # << >>
    /\ na_standings # ProcessRows([st |-> BaseLedger, ret |-> FALSE, call |-> NoCall], df, 1).st

\* the standing of a row: what a match or a bye changes
StandingOf(row) ==
    << row.player_id, row.match_points, row.wins, row.losses, row.ties,
       row.opponents_played, row.match_history >>

\* C14: in rounds 10..13 every side of every pairing is an active participant
\* (or the bye), and no step of the run changes the match points, the
\* win/loss/tie counters, the prior-opponent set or the match history of an
\* inactive participant.
C14_InactiveAreFrozen ==
    [][ /\ \A x \in DOMAIN df \cap DOMAIN df' :
              ~df[x].is_active => StandingOf(df'[x]) = StandingOf(df[x])
        /\ round_num' > LastDay1Round =>
              \A n \in DOMAIN pairings', side \in {1, 2} :
                  \/ pairings'[n][side] = BYE
                  \/ \E x \in DOMAIN df' :
                        df'[x].is_active /\ df'[x].player_id = pairings'[n][side] ]_vars

\* a finished run in which two Day-2 participants met in round 13 while an
\* eliminated participant kept the nine records of Day 1
C14_Witness ==
    /\ pc = "done"
    /\ \E x \in DOMAIN df :
          /\ df[x].is_active
          /\ Len(df[x].match_history) = LastDay2Round
          /\ df[x].match_history[LastDay2Round].opponent # ByeName
    /\ \E x \in DOMAIN df :
          /\ ~df[x].is_active
          /\ Len(df[x].match_history) = LastDay1Round

\* simulate_round has gone through all pairings of the round, or the run is over
RoundOver == pc = "done" \/ (pc = "play" /\ k > Len(pairings))

\* C15: a step appends at most one match record to a history, only to that of
\* an active participant and carrying the number of the round being played,
\* and leaves the records already there as they are; when a round is over the
\* history of every participant active in it holds one record for each round
\* so far, in order, and that of an eliminated participant the 9 of Day 1, so
\* that a run ends with 13 records for Day-2 participants and 9 for the others.
C15_OneRecordPerRound ==
    [][ /\ \A x \in DOMAIN df \cap DOMAIN df' :
              \A h \in { df[x].match_history }, h2 \in { df'[x].match_history } :
                  /\ Len(h2) \in { Len(h), Len(h) + 1 }
                  /\ SubSeq(h2, 1, Len(h)) = h
                  /\ Len(h2) = Len(h) + 1 =>
                        /\ df[x].is_active
                        /\ h2[Len(h2)].round = round_num
        /\ RoundOver' =>
              \A x \in DOMAIN df' :
                  /\ Len(df'[x].match_history) =
                        IF df'[x].is_active THEN round_num' ELSE LastDay1Round
                  /\ \A n \in DOMAIN df'[x].match_history :
                        df'[x].match_history[n].round = n ]_vars

\* a finished run: a Day-2 participant with 13 records, one of them a bye, and
\* an eliminated participant with 9
C15_Witness ==
    /\ pc = "done"
    /\ \E x \in DOMAIN df :
          /\ df[x].is_active
          /\ Len(df[x].match_history) = 13
          /\ \E n \in DOMAIN df[x].match_history : df[x].match_history[n].opponent = ByeName
    /\ \E x \in DOMAIN df :
          /\ ~df[x].is_active
          /\ Len(df[x].match_history) = 9

\* C16: the round number starts at 1 and only ever grows by one, when all
\* pairings of the round have been played; activity changes only on the step
\* from round 9 to round 10, which applies the cutoff; the run finishes only
\* from the end of round 13, with a result, and takes no step after that; and
\* every run that has begun does finish with a result.
C16_RoundsInOrderThenResult ==
    /\ [][  /\ pc # "done"
            /\ round_num' # round_num =>
                  \/ (pc = "idle" /\ round_num' = 1)
                  \/ ( /\ pc = "play"
                       /\ k > Len(pairings)
                       /\ round_num' = round_num + 1
                       /\ round_num' <= LastDay2Round )
            /\ (pc = "play" /\ pc' = "bracket") => round_num' = round_num + 1
            /\ (round_num = LastDay1Round /\ round_num' = LastDay1Round + 1) =>
                  \A x \in DOMAIN df : df'[x].is_active <=> df[x].match_points >= AdvancePoints
            /\ (\E x \in DOMAIN df \cap DOMAIN df' : df'[x].is_active # df[x].is_active) =>
                  round_num = LastDay1Round /\ round_num' = LastDay1Round + 1
            /\ pc' = "done" =>
                  /\ pc = "play"
                  /\ k > Len(pairings)
                  /\ round_num = LastDay2Round
                  /\ round_num' = LastDay2Round
                  /\ tournament_result' # None ]_vars
    /\ (pc # "idle") ~> (pc = "done" /\ tournament_result # None)

\* a run that finished after round 13 with Day-2 participants in its result
C16_Witness ==
    /\ pc = "done"
    /\ round_num = LastDay2Round
    /\ tournament_result # None
    /\ tournament_result.v.final_standings # << >>
    /\ Len(df) > Len(tournament_result.v.final_standings)

\* C17: the step of simulate_round that handles a bye pairing gives its
\* participant exactly 3 match points and one win, no loss and no tie, appends
\* the record of a win against 'BYE' that is not brutal, and leaves the
\* participant's prior-opponent set and every other row as they are.
C17_ByeIsAWin ==
    [][ (pc = "play" /\ k <= Len(pairings) /\ k' = k + 1 /\ pairings[k][2] = BYE) =>
          \A x \in DOMAIN df :
              IF df[x].player_id = pairings[k][1]
              THEN /\ df'[x].match_points = df[x].match_points + 3
                   /\ df'[x].wins = df[x].wins + 1
                   /\ df'[x].losses = df[x].losses
                   /\ df'[x].ties = df[x].ties
                   /\ df'[x].opponents_played = df[x].opponents_played
                   /\ df'[x].match_history =
                         Append(df[x].match_history,
                                [round |-> round_num, opponent |-> ByeName, opponent_cp |-> 0,
                                 result |-> "win", brutal |-> FALSE])
              ELSE df'[x] = df[x] ]_vars

\* a bye has just been played in a round of three or more active participants
\* by one who had played matches before
C17_Witness ==
    /\ pc = "play"
    /\ k > 1
    /\ Len(pairings) >= 2
    /\ pairings[k - 1][2] = BYE
    /\ \E x \in DOMAIN df :
          /\ df[x].player_id = pairings[k - 1][1]
          /\ df[x].opponents_played # {}
          /\ df[x].match_history[Len(df[x].match_history)].opponent = ByeName
          /\ df[x].match_history[Len(df[x].match_history)].round = round_num

\* the participant of row x has a bye in its history
HadBye(x) ==
    \E n \in DOMAIN df[x].match_history : df[x].match_history[n].opponent = ByeName

\* C18: when generate_swiss_pairings is left with an odd number of unpaired
\* active participants, the bye goes to the last of them in DataFrame order,
\* whether or not that participant has had a bye before; so one participant
\* can receive byes in two different rounds.
C18_ByeIgnoresEarlierByes ==
    [][ (pc = "bracket" /\ pc' = "play") =>
          \A left \in { { x \in DOMAIN df : df[x].is_active /\ df[x].player_id \notin paired } } :
              Cardinality(left) % 2 = 1 =>
                  \E x \in left :
                      /\ \A y \in left : y <= x
                      /\ pairings' # << >>
                      /\ pairings'[Len(pairings')] = << df[x].player_id, BYE >> ]_vars

\* a participant has received its second bye, in a later round than its
\* first, while an active participant who never had a bye was unpaired too
C18_Witness ==
    /\ pc = "play"
    /\ k = 1
    /\ pairings # << >>
    /\ pairings[Len(pairings)][2] = BYE
    /\ \E x \in DOMAIN df :
          /\ df[x].player_id = pairings[Len(pairings)][1]
          /\ HadBye(x)
    /\ Len(pairings) >= 2
    /\ \E y \in DOMAIN df :
          /\ df[y].is_active
          /\ ~HadBye(y)
          /\ df[y].player_id \in { pairings[Len(pairings) - 1][1], pairings[Len(pairings) - 1][2] }
          /\ \E z \in DOMAIN df :
                /\ z # y
                /\ df[z].player_id \in { pairings[Len(pairings) - 1][1],
                                          pairings[Len(pairings) - 1][2] }
                /\ df[z].match_points # df[y].match_points

-----------------------------------------------------------------------------
(* Properties of the ledger *)

\* the finishes a ledger row holds
FinishesOf(st, r) == parse_cp_finishes(st[r].CP_Finishes)

\* how often a value occurs in a list
Count(list, v) == Cardinality({ x \in DOMAIN list : list[x] = v })

\* `after` is `before` with the values of `out` taken out once each and the
\* values of `inn` put in once each (as multisets)
Exchanged(before, after, out, inn) ==
    \A v \in Range(before) \cup Range(after) \cup Range(out) \cup Range(inn) :
        Count(after, v) = Count(before, v) - Count(out, v) + Count(inn, v)

\* this step is one update_player_finishes call that found a row;
\* call'.current_finishes is then what the row held before the step
IsUpdateOfRow ==
    /\ call'.op = "update_player_finishes"
    /\ call'.player_idx # 0
    /\ UpdatePlayerFinishes(call'.player_name, call'.new_points)

\* ... of a row holding exactly 5 finishes
IsUpdateOfFullRow ==
    /\ call'.op = "update_player_finishes"
    /\ call'.player_idx # 0
    /\ Len(call'.current_finishes) = 5
    /\ IsUpdateOfRow

\* ... of a row holding fewer than 5 finishes
IsUpdateOfShortRow ==
    /\ call'.op = "update_player_finishes"
    /\ call'.player_idx # 0
    /\ Len(call'.current_finishes) < 5
    /\ IsUpdateOfRow

\* C5: update_player_finishes on a row of exactly 5 finishes: a value above the
\* minimum replaces one instance of the minimum and True is returned (so
\* [500,480,420,420,380] + 400 gives [500,480,420,420,400], sum 2220); any
\* other value returns False and leaves finishes, Top_X_CP and Total_CP alone.
C5_FiveFinishReplacement ==
    [][ IsUpdateOfFullRow =>
          \A r \in { call'.player_idx }, v \in { call'.new_points },
             before \in { call'.current_finishes },
             after \in { FinishesOf(na_standings', call'.player_idx) } :
                /\ before = FinishesOf(na_standings, r)
                /\ (\A x \in Range(before) : v <= x) =>
                      /\ ret' = FALSE
                      /\ after = before
                      /\ na_standings'[r].Top_X_CP = na_standings[r].Top_X_CP
                      /\ na_standings'[r].Total_CP = na_standings[r].Total_CP
                /\ (\E x \in Range(before) : v > x) =>
                      /\ ret' = TRUE
                      /\ \E m \in Range(before) :
                            /\ \A x \in Range(before) : m <= x
                            /\ Exchanged(before, after, << m >>, << v >>)
                /\ (before = << 500, 480, 420, 420, 380 >> /\ v = 400) =>
                      /\ after = << 500, 480, 420, 420, 400 >>
                      /\ na_standings'[r].Top_X_CP = 2220 ]_vars

\* the example of the 5-finish rule has been run
C5_Witness ==
    /\ call.op = "update_player_finishes"
    /\ call.player_idx # 0
    /\ call.current_finishes = << 500, 480, 420, 420, 380 >>
    /\ call.new_points = 400
    /\ ret = TRUE
    /\ FinishesOf(na_standings, call.player_idx) = << 500, 480, 420, 420, 400 >>

\* C6: from a ledger whose rows have at most 5 finishes, every row has at most
\* 5 finishes after any sequence of calls.
C6_AtMostFiveFinishes ==
    \A r \in DOMAIN na_standings : Len(FinishesOf(na_standings, r)) <= 5

\* an award has been applied to a row that already held 5 finishes
C6_Witness ==
    /\ call.op = "update_player_finishes"
    /\ call.player_idx # 0
    /\ Len(call.current_finishes) = 5
    /\ ret = TRUE
    /\ Len(FinishesOf(na_standings, call.player_idx)) = 5

\* C7: in every row the finishes are sorted in descending order, Top_X_CP is
\* their sum and Total_CP is Top_X_CP plus Locals CP: after every call that
\* reports a change, and after any sequence of awards from a baseline where it holds.
C7_SortedAndTotalsInSync ==
    \A r \in DOMAIN na_standings :
        LET f == FinishesOf(na_standings, r)
        IN  /\ \A x, y \in DOMAIN f : x < y => f[x] >= f[y]
            /\ na_standings[r].Top_X_CP = SumSeq(f)
            /\ na_standings[r].Total_CP = na_standings[r].Top_X_CP + na_standings[r].Locals_CP

\* a changing award whose value is above a finish the row already held
C7_Witness ==
    /\ call.op = "update_player_finishes"
    /\ call.player_idx # 0
    /\ ret = TRUE
    /\ Len(call.current_finishes) < 5
    /\ \E x \in Range(call.current_finishes) : call.new_points > x

\* C8: update_player_finishes on a row of fewer than 5 finishes adds the value
\* and returns True, whatever the value.
C8_FewerThanFiveAlwaysAdds ==
    [][ IsUpdateOfShortRow =>
          \A r \in { call'.player_idx }, v \in { call'.new_points },
             before \in { call'.current_finishes },
             after \in { FinishesOf(na_standings', call'.player_idx) } :
                /\ before = FinishesOf(na_standings, r)
                /\ ret' = TRUE
                /\ Exchanged(before, after, << >>, << v >>) ]_vars

\* a value below every finish of a row of fewer than 5 has been added
C8_Witness ==
    /\ call.op = "update_player_finishes"
    /\ call.player_idx # 0
    /\ ret = TRUE
    /\ call.current_finishes # << >>
    /\ Len(call.current_finishes) < 5
    /\ \A x \in Range(call.current_finishes) : call.new_points < x
    /\ Len(FinishesOf(na_standings, call.player_idx)) = Len(call.current_finishes) + 1

\* the bands of the official table: first placement, last placement, points
Bands ==
    << << 1, 1, 500 >>, << 2, 2, 480 >>, << 3, 4, 420 >>, << 5, 8, 380 >>,
       << 9, 16, 300 >>, << 17, 32, 200 >>, << 33, 64, 150 >>, << 65, 128, 120 >>,
       << 129, 256, 100 >>, << 257, 512, 80 >>, << 513, 1024, 40 >> >>

\* C9: get_championship_points returns the points of the band containing the
\* placement, and None for every placement above 1024.
C9_PointsByBand ==
    call.op = "get_championship_points" =>
        /\ \A b \in DOMAIN Bands :
              (Bands[b][1] <= call.placement /\ call.placement <= Bands[b][2])
                  => ret = Some(Bands[b][3])
        /\ call.placement > 1024 => ret = None

\* the last placement of the table and the first beyond it have been looked up
C9_Witness ==
    /\ call.op = "get_championship_points"
    /\ \/ call.placement = 1024 /\ ret = Some(40)
       \/ call.placement = 1025 /\ ret = None

\* no row of the ledger carries the name, compared as update_player_finishes
\* compares names
MatchesNoRow(st, player_name) ==
    \A r \in DOMAIN st :
        /\ Lower(st[r].NA_Name) # Lower(player_name)
        /\ Lower(st[r].Top_X_Name) # Lower(player_name)

\* C19: an update_player_finishes or _process_individual_player call for a
\* name that matches no ledger row returns False and leaves the ledger as it
\* is, and process_tournament_results leaves the ledger as if such entries
\* were not in its list: the entries after them are processed.
C19_UnknownNameIsNoOp ==
    [][ /\ ( /\ call'.op \in { "update_player_finishes", "_process_individual_player" }
              /\ MatchesNoRow(na_standings, call'.player_name) ) =>
                  /\ ret' = FALSE
                  /\ na_standings' = na_standings
        /\ call'.op = "process_tournament_results" =>
              \A known \in { SelectSeq(call'.tournament_results,
                                       LAMBDA e : ~MatchesNoRow(na_standings, e.player_name)) } :
                  na_standings' =
                      ProcessList([st |-> na_standings, ret |-> ret, call |-> call], known, 1).st
      ]_vars

\* process_tournament_results has gone through a list whose first name matches
\* no row and has made the award of the second entry
C19_Witness ==
    /\ call.op = "process_tournament_results"
    /\ MatchesNoRow(na_standings, call.tournament_results[1].player_name)
    /\ is_na_player(call.tournament_results[1].player_name)
    /\ ~MatchesNoRow(na_standings, call.tournament_results[2].player_name)
    /\ ret = TRUE

-----------------------------------------------------------------------------
(* Properties of track_140th_place_experiment *)

\* C20: the snapshot the experiment takes is the ledger at its start and is
\* never changed; the ledger equals it when each tournament of the experiment
\* begins, and again when the experiment returns.
C20_LedgerResetAroundRuns ==
    [][ /\ (experiment.pc = "none" /\ experiment'.pc # "none") =>
              experiment'.initial_standings = na_standings
        /\ experiment.pc # "none" =>
              experiment'.initial_standings = experiment.initial_standings
        /\ (experiment.pc = "loop" /\ experiment'.pc = "run") =>
              /\ pc' = "bracket"
              /\ round_num' = 1
              /\ na_standings' = experiment.initial_standings
        /\ experiment'.pc = "returned" =>
              na_standings' = experiment'.initial_standings ]_vars

\* an experiment of two tournaments has returned; the last of them made an
\* award, which the ledger no longer shows
C20_Witness ==
    /\ experiment.pc = "returned"
    /\ experiment.num_simulations = 2
    /\ Len(experiment.place_140_totals) = 2
    /\ pc = "done"
    /\ call.op = "update_player_finishes"
    /\ call.player_idx # 0
    /\ ret = TRUE
    /\ na_standings = experiment.initial_standings

\* the tournament of the current iteration has returned with nobody in Day 2
RunEndedEmpty ==
    /\ experiment.pc = "run"
    /\ pc = "done"
    /\ tournament_result.v.final_standings = << >>

\* C30: a batch workflow records a run that ended with zero Day-2 participants
\* and goes on with the remaining runs instead of failing as a whole: after
\* such a run of the experiment its entry is recorded and the loop is at the
\* next iteration.
C30_EmptyRunIsRecordedAndBatchGoesOn ==
    [][ (RunEndedEmpty /\ experiment' # experiment) =>
            /\ experiment'.pc = "loop"
            /\ experiment'.sim_num = experiment.sim_num + 1
            /\ Len(experiment'.place_140_totals) = Len(experiment.place_140_totals) + 1
      ]_vars

-----------------------------------------------------------------------------
(* Properties of the name matching of update_player_finishes *)

\* the rows one of whose two names equals the name, letter case ignored
RowsNamed(st, player_name) ==
    { r \in DOMAIN st : \/ Lower(st[r].NA_Name) = Lower(player_name)
                        \/ Lower(st[r].Top_X_Name) = Lower(player_name) }

\* the 5-finish rule admits the value into the row
Admits(row, new_points) ==
    \/ Len(parse_cp_finishes(row.CP_Finishes)) < 5
    \/ new_points > MinSeq(parse_cp_finishes(row.CP_Finishes))

\* C22: update_player_finishes applies the award to a row whose 'NA Name' or
\* 'Top X Name' equals the given name ignoring letter case; when several rows
\* match, the first of them is the one updated and every other row is left as
\* it was; when none matches nothing changes and False is returned.
C22_FirstMatchingRowOnly ==
    [][ (/\ call'.op = "update_player_finishes"
         /\ UpdatePlayerFinishes(call'.player_name, call'.new_points))
        => LET named == RowsNamed(na_standings, call'.player_name)
           IN  IF named = {}
               THEN ret' = FALSE /\ na_standings' = na_standings
               ELSE \E first \in named :
                       /\ \A r \in named : first <= r
                       /\ \A r \in DOMAIN na_standings :
                              r # first => na_standings'[r] = na_standings[r]
                       /\ ret' = Admits(na_standings[first], call'.new_points)
                       /\ ret' => /\ na_standings'[first] # na_standings[first]
                                  /\ call'.new_points \in
                                        Range(parse_cp_finishes(na_standings'[first].CP_Finishes))
      ]_vars

\* a call whose name matches two rows, the first by its 'NA Name' and the
\* second by its 'Top X Name', has updated the first
C22_Witness ==
    /\ call.op = "update_player_finishes"
    /\ ret = TRUE
    /\ Cardinality(RowsNamed(na_standings, call.player_name)) = 2
    /\ call.player_idx = 1
    /\ Lower(na_standings[1].NA_Name) = Lower(call.player_name)
    /\ Lower(na_standings[2].Top_X_Name) = Lower(call.player_name)
    /\ call.new_points \in Range(parse_cp_finishes(na_standings[1].CP_Finishes))

-----------------------------------------------------------------------------
(* Properties of the skill model and of simulate_match *)

\* C23: for every rating r >= 0 calculate_skill_level(r) lies in (0, 1], and
\* the skill never decreases as the rating grows: no smaller rating has a
\* larger skill, the thresholds 331/332, 500/501 and 800/801 included.
C23_SkillInRangeAndMonotone ==
    (call.op = "calculate_skill_level" /\ ~ret.none) =>
        /\ 0 < ret.v
        /\ ret.v <= Scale
        /\ \A lower \in 0..call.cp : calculate_skill_level(lower) <= ret.v

\* one side is low (at most 331) and the other high (at least 500)
LowAgainstHigh(low_cp, high_cp) == low_cp <= 331 /\ high_cp >= 500

\* C24: simulate_match raises the brutal flag exactly when one side is rated at
\* most 331 and the other at least 500, whichever side is the low one; then the
\* low side plays with a quarter of its base skill, which is strictly less, and
\* the high side with its base skill; in every other match both play with
\* their base skills.
C24_BrutalPenalty ==
    (call.op = "simulate_match" /\ ~ret.none) =>
        LET base1 == calculate_skill_level(call.p1_cp)
            base2 == calculate_skill_level(call.p2_cp)
        IN  /\ ret.v.is_brutal_matchup <=>
                  (LowAgainstHigh(call.p1_cp, call.p2_cp) \/ LowAgainstHigh(call.p2_cp, call.p1_cp))
            /\ LowAgainstHigh(call.p1_cp, call.p2_cp) =>
                  /\ ret.v.p1_skill = (25 * base1) \div 100
                  /\ ret.v.p1_skill < base1
                  /\ ret.v.p2_skill = base2
            /\ LowAgainstHigh(call.p2_cp, call.p1_cp) =>
                  /\ ret.v.p2_skill = (25 * base2) \div 100
                  /\ ret.v.p2_skill < base2
                  /\ ret.v.p1_skill = base1
            /\ ~ret.v.is_brutal_matchup =>
                  /\ ret.v.p1_skill = base1
                  /\ ret.v.p2_skill = base2

\* a match of a player rated exactly 500 against one rated exactly 331 has
\* returned with the flag raised and the second player's skill quartered
C24_Witness ==
    /\ call.op = "simulate_match"
    /\ ~ret.none
    /\ call.p1_cp = 500
    /\ call.p2_cp = 331
    /\ ret.v.is_brutal_matchup
    /\ 4 * ret.v.p2_skill <= calculate_skill_level(331)
    /\ ret.v.p1_skill = calculate_skill_level(500)

\* the draw 0.15, the smallest that is not a tie
TieEnd == (15 * Scale) \div 100

\* C25: simulate_match returns a tie exactly when the draw is below 0.15, which
\* is tested first; player1_wins exactly when 0.15 <= draw < 0.15 + 0.85 * p;
\* player2_wins otherwise, where p is 0.5 + skill1 - skill2 of the effective
\* skills clamped to [0.001, 0.999]; and each of the three outcomes is returned
\* for some draw: the draw 0 is a tie, the draw 0.15 a win of player 1 and the
\* largest draw a win of player 2.
C25_OutcomeByDraw ==
    (call.op = "simulate_match" /\ ~ret.none) =>
        LET d == call.rand_val
            p == ret.v.p1_win_prob
            raw == Scale \div 2 + ret.v.p1_skill - ret.v.p2_skill
        IN  /\ p = IF raw > (999 * Scale) \div 1000 THEN (999 * Scale) \div 1000
                   ELSE IF raw < Scale \div 1000 THEN Scale \div 1000
                   ELSE raw
            /\ ret.v.outcome = "tie" <=> d < TieEnd
            /\ ret.v.outcome = "player1_wins" <=>
                   (TieEnd <= d /\ 100 * d < 100 * TieEnd + 85 * p)
            /\ ret.v.outcome = "player2_wins" <=> 100 * d >= 100 * TieEnd + 85 * p
            /\ simulate_match(call.p1_cp, call.p2_cp, 0).outcome = "tie"
            /\ simulate_match(call.p1_cp, call.p2_cp, TieEnd).outcome = "player1_wins"
            /\ simulate_match(call.p1_cp, call.p2_cp, Scale - 1).outcome = "player2_wins"

\* a match whose win probability was clamped to 0.999 has been lost by player 1
\* on a draw above the tie range
C25_Witness ==
    /\ call.op = "simulate_match"
    /\ ~ret.none
    /\ ret.v.p1_win_prob = (999 * Scale) \div 1000
    /\ call.rand_val >= TieEnd
    /\ ret.v.outcome = "player2_wins"

-----------------------------------------------------------------------------
(* Properties of the points table under update_points_table *)

\* the placements the table has an entry for
TableKeys == (DOMAIN points_table) \cup (DOMAIN real_points)

\* C26: in every reachable state, after any update_points_table call too, the
\* points table never gives a worse placement more points than a better one,
\* and it gives no points to a placement beyond its largest one.
C26_TableMonotoneAndBounded ==
    /\ \A q \in TableKeys : \A p \in TableKeys :
           p < q => get_championship_points(p).v >= get_championship_points(q).v
    /\ \A p \in LookupPlacements :
           (\A q \in TableKeys : q < p) => get_championship_points(p) = None

-----------------------------------------------------------------------------
(* Properties of the participants' records during a run *)

\* C32: in every state of a run every participant's match points are three
\* times its wins plus its ties, and its wins, losses and ties add up to the
\* number of records of its match history, which holds one record per round
\* the participant played, in round order.
C32_PointsAndHistoryAgree ==
    \A x \in DOMAIN df :
        /\ df[x].match_points = 3 * df[x].wins + df[x].ties
        /\ df[x].wins + df[x].losses + df[x].ties = Len(df[x].match_history)
        /\ \A a, b \in DOMAIN df[x].match_history :
              a < b => df[x].match_history[a].round < df[x].match_history[b].round
        /\ Cardinality({ a \in DOMAIN df[x].match_history :
                            df[x].match_history[a].result = "win" }) = df[x].wins
        /\ Cardinality({ a \in DOMAIN df[x].match_history :
                            df[x].match_history[a].result = "tie" }) = df[x].ties

\* a finished run with a participant that has won, lost and tied, and a
\* participant that was given a bye
C32_Witness ==
    /\ pc = "done"
    /\ \E x \in DOMAIN df : df[x].wins > 0 /\ df[x].losses > 0 /\ df[x].ties > 0
    /\ \E x \in DOMAIN df : \E a \in DOMAIN df[x].match_history :
          df[x].match_history[a].opponent = ByeName

\* the cutoff has been applied: Day 2 has begun or the run is finished
AfterCutoff == round_num >= 10

\* C33: no step of a run lowers a participant's match points; from the cutoff
\* to the end of the run a participant is active exactly when it holds at
\* least 19 match points, so the participants selected by is_active (ranked
\* 1..M) and those selected by match_points < 19 (ranked M+1..N) are disjoint
\* and together are all participants.
C33_ActiveIffAdvanced ==
    /\ [](AfterCutoff =>
            /\ \A x \in DOMAIN df : df[x].is_active <=> df[x].match_points >= 19
            /\ { x \in DOMAIN df : df[x].is_active }
                  \cap { x \in DOMAIN df : df[x].match_points < 19 } = {}
            /\ { x \in DOMAIN df : df[x].is_active }
                  \cup { x \in DOMAIN df : df[x].match_points < 19 } = DOMAIN df)
    /\ [][ \A x \in DOMAIN df \cap DOMAIN df' :
              df'[x].player_id = df[x].player_id =>
                 df'[x].match_points >= df[x].match_points ]_vars

\* a finished run in which a participant that advanced gained points in Day 2
\* and another participant ended Day 1 one win short of the cutoff
C33_Witness ==
    /\ pc = "done"
    /\ \E x \in DOMAIN df : df[x].is_active /\ df[x].match_points > 19 + 3
    /\ \E x \in DOMAIN df : ~df[x].is_active /\ df[x].match_points >= 19 - 3

\* the ids of the participants whose name is the opponent of a record of
\* row x's match history: those it faced in pairings that were not byes
FacedBy(x) ==
    { df[y].player_id : y \in { z \in DOMAIN df :
          \E a \in DOMAIN df[x].match_history : df[x].match_history[a].opponent = df[z].name } }

\* C34: in every state the prior-opponent relation is symmetric and
\* irreflexive, and a participant's opponents_played holds exactly the ids of
\* the participants it has faced in pairings that were not byes.
C34_OpponentsPlayedIsTheRelation ==
    \A x \in DOMAIN df :
        /\ df[x].player_id \notin df[x].opponents_played
        /\ BYE \notin df[x].opponents_played
        /\ \A y \in DOMAIN df :
              df[y].player_id \in df[x].opponents_played
                 <=> df[x].player_id \in df[y].opponents_played
        /\ df[x].opponents_played = FacedBy(x)

\* a finished run in which a participant has faced two others, one of them
\* twice, and has had a bye
C34_Witness ==
    /\ pc = "done"
    /\ \E x \in DOMAIN df :
          /\ Cardinality(df[x].opponents_played) = 2
          /\ \E a \in DOMAIN df[x].match_history : df[x].match_history[a].opponent = ByeName
          /\ \E a, b \in DOMAIN df[x].match_history :
                /\ a < b
                /\ df[x].match_history[a].opponent = df[x].match_history[b].opponent
                /\ df[x].match_history[a].opponent # ByeName

-----------------------------------------------------------------------------
(* Properties of the ledger under sequences of awards *)

\* the fields of a ledger row that an award may not change
KeptFields(row) == << row.NA_Name, row.Top_X_Name, row.Locals_CP >>

\* C37: update_player_finishes changes nothing but the 'CP Finishes', Top_X_CP
\* and Total_CP of the row it matched: that row keeps its names and its
\* 'Locals CP', every other row keeps every field, the ledger keeps its rows
\* and their order, and the points table and the name lookup stay as they were.
C37_OnlyTheMatchedRowsTotals ==
    [][ (/\ call'.op = "update_player_finishes"
         /\ UpdatePlayerFinishes(call'.player_name, call'.new_points))
        => /\ DOMAIN na_standings' = DOMAIN na_standings
           /\ \A r \in DOMAIN na_standings :
                 /\ KeptFields(na_standings'[r]) = KeptFields(na_standings[r])
                 /\ r # call'.player_idx => na_standings'[r] = na_standings[r]
           /\ points_table' = points_table
           /\ na_lookup' = na_lookup
      ]_vars

\* an award has been written into the second row while the first row holds
\* finishes of its own
C37_Witness ==
    /\ call.op = "update_player_finishes"
    /\ ret = TRUE
    /\ call.player_idx = 2
    /\ na_standings[1].Top_X_CP > 0
    /\ na_standings[2].Total_CP = na_standings[2].Top_X_CP + na_standings[2].Locals_CP
    /\ na_standings[2].Top_X_CP >= call.new_points

\* C38: across any sequence of awards, those made by process_tournament_results
\* included, no ledger row's Top_X_CP and no ledger row's Total_CP decreases.
C38_TotalsNeverDecrease ==
    [][ \A r \in DOMAIN na_standings :
            /\ na_standings'[r].Top_X_CP >= na_standings[r].Top_X_CP
            /\ na_standings'[r].Total_CP >= na_standings[r].Total_CP ]_vars

\* process_tournament_results has made an award to a row that held 5 finishes,
\* and the row's total is above the one it was loaded with
C38_Witness ==
    /\ call.op = "process_tournament_results"
    /\ ret = TRUE
    /\ \E r \in DOMAIN na_standings :
          /\ Len(parse_cp_finishes(na_standings[r].CP_Finishes)) = 5
          /\ na_standings[r].Top_X_CP > SumSeq(<< 500, 480, 420, 420, 380 >>)
          /\ na_standings[r].Total_CP = na_standings[r].Top_X_CP + na_standings[r].Locals_CP

\* C39: the two name lookups of the ledger agree: whenever update_player_finishes
\* is called with a name that is_na_player accepts, it finds a ledger row for
\* that name.
C39_AcceptedNameIsFound ==
    (call.op = "update_player_finishes" /\ is_na_player(call.player_name)) =>
        call.player_idx # 0

\* the row the awards of the sequence go to: the first one matching the name
AwardedRow == CHOOSE r \in RowsNamed(na_standings, call.player_name) :
                 \A q \in RowsNamed(na_standings, call.player_name) : r <= q

\* the finishes the row was loaded with followed by every value awarded
AllValues ==
    parse_cp_finishes(call.initial_standings[AwardedRow].CP_Finishes) \o call.awarded

\* C36: for a row loaded with at most 5 finishes, the finishes after any
\* sequence of awards are the 5 largest values of the multiset of the loaded
\* finishes and the awarded values, all of them when there are fewer than 5,
\* in descending order; Top_X_CP is their sum and Total_CP adds 'Locals CP'.
\* The finishes and the totals therefore depend on the multiset only, not on
\* the order of the awards.
C36_FiveLargestOfAllValues ==
    call.op = "awards" =>
        LET finishes == parse_cp_finishes(na_standings[AwardedRow].CP_Finishes)
        IN  /\ Len(finishes) = IF Len(AllValues) < 5 THEN Len(AllValues) ELSE 5
            /\ \A a, b \in DOMAIN finishes : a < b => finishes[a] >= finishes[b]
            /\ \A v \in Range(AllValues) :
                  /\ Count(finishes, v) <= Count(AllValues, v)
                  /\ Count(finishes, v) < Count(AllValues, v) =>
                        \A a \in DOMAIN finishes : v <= finishes[a]
            /\ Range(finishes) \subseteq Range(AllValues)
            /\ na_standings[AwardedRow].Top_X_CP = SumSeq(finishes)
            /\ na_standings[AwardedRow].Total_CP =
                  SumSeq(finishes) + na_standings[AwardedRow].Locals_CP

\* six awards have been made to a row loaded with 5 finishes, a low value
\* first and a high value last, and the row holds none of the low ones
C36_Witness ==
    /\ call.op = "awards"
    /\ Len(call.awarded) = 6
    /\ call.awarded[1] = 40
    /\ call.awarded[6] = 500
    /\ Len(parse_cp_finishes(call.initial_standings[AwardedRow].CP_Finishes)) = 5
    /\ 40 \notin Range(parse_cp_finishes(na_standings[AwardedRow].CP_Finishes))
    /\ 500 \in Range(parse_cp_finishes(na_standings[AwardedRow].CP_Finishes))

-----------------------------------------------------------------------------
(* Properties of run_multi_event_simulation *)

\* C35: for each tournament event a participant's placement is applied to the
\* ledger at most once: over run_tournament and run_multi_event_simulation
\* together, with tracking on, update_player_finishes is called at most once
\* with any participant's name per event.
C35_OneAwardPerParticipantPerEvent ==
    experiment.pc \in { "events", "events_raised", "events_returned" } =>
        \A n \in Range(experiment.update_calls) : Count(experiment.update_calls, n) <= 1

-----------------------------------------------------------------------------
(* Properties of simulate_full_tournament *)

NotebookCall == experiment.pc \in { "day1", "day2", "returned", "raised" }

NotebookError == ~experiment.result.none /\ "error" \in DOMAIN experiment.result.v

\* C31: when no participant has points_to_advance after Day 1, the call
\* returns the error result with no Day-2 round run and nothing written to the
\* player database; otherwise the Day-2 rounds run and the database is updated
\* exactly once, after the final standings (never before the call returns).
C31_ErrorBeforeDay2OrOneUpdate ==
    NotebookCall =>
        /\ experiment.pc # "raised"
        /\ experiment.pc # "returned" =>
              /\ experiment.db_updates = 0
              /\ \A id \in DOMAIN experiment.db : experiment.db[id] = None
        /\ experiment.pc = "returned" =>
              /\ NotebookError <=>
                    \A x \in DOMAIN experiment.players_df :
                        experiment.players_df[x].match_points < experiment.points_to_advance
              /\ NotebookError =>
                    /\ experiment.rounds = [n \in 1..experiment.day1_rounds |-> n]
                    /\ experiment.db_updates = 0
                    /\ \A id \in DOMAIN experiment.db : experiment.db[id] = None
              /\ ~NotebookError =>
                    /\ experiment.rounds =
                          [n \in 1..(experiment.day1_rounds + experiment.day2_rounds) |-> n]
                    /\ experiment.db_updates = 1
                    /\ \A x \in DOMAIN experiment.players_df :
                          experiment.db[experiment.players_df[x].player_id] =
                              Some(NotebookRecord(experiment.players_df[x]))

\* both cases occur: a call returned the error result after its Day 1
C31_Witness ==
    /\ experiment.pc = "returned"
    /\ NotebookError
    /\ Len(experiment.rounds) = experiment.day1_rounds
    /\ \E x \in DOMAIN experiment.players_df : experiment.players_df[x].match_points > 0

=============================================================================
